---- MODULE Spec2Model ----
(***************************************************************************)
(* A model of the request lifecycle of the LLM gateway: the per-tenant     *)
(* token bucket (app/auth/rate_limiter.py), the provider adapters          *)
(* (app/providers), the router (app/routing), the fallback executor        *)
(* (app/utils/retry.py) and the chat-completion handler                    *)
(* (app/api/routes.py).                                                    *)
(*                                                                         *)
(* Numbers.  The bucket level is a float in the code; with a clock that    *)
(* reads whole seconds and refill_rate = capacity / 60.0 every level is a  *)
(* multiple of 1/60, so the model keeps levels in sixtieths of a token     *)
(* (tokens = 60 * level) and rates in sixtieths of a token per second.     *)
(***************************************************************************)
EXTENDS Integers, Sequences, FiniteSets, TLC

\* ------------------------------------------------------------------ bounds

\* Number of clock advances explored in the single-bucket specification.
MaxTicks == 3

\* ------------------------------------------------------- program constants

\* refill_rate = capacity / 60.0: one token is Scale sixtieths.
Scale == 60

\* ------------------------------------------------------------------ helpers

Min(a, b) == IF a <= b THEN a ELSE b

Max(a, b) == IF a >= b THEN a ELSE b

\* ceil(n / d) for n >= 0, d > 0
CeilDiv(n, d) == (n + d - 1) \div d

\* ------------------------------------------------------------- token bucket

\* Tenants (API keys) known to the gateway.
Tenants == {"A", "B"}

NoBucket == [capacity |-> -1]

\* TokenBucket.__init__(capacity, refill_rate) at clock reading now.
\* refill_rate is kept in sixtieths of a token per second.
TokenBucket(capacity, refill_rate, now) ==
    [capacity |-> capacity,
     refill_rate |-> refill_rate,
     tokens |-> capacity * Scale,
     last_refill |-> now]

\* The refill of TokenBucket.consume: min(capacity, tokens + elapsed * rate).
Refill(b, now) ==
    Min(b.capacity * Scale, b.tokens + (now - b.last_refill) * b.refill_rate)

\* consume with the cap of the refill left out.
consume_uncapped(b, now) ==
    LET t1 == b.tokens + (now - b.last_refill) * b.refill_rate
        b1 == [b EXCEPT !.tokens = t1, !.last_refill = now]
    IN  IF t1 >= 1 * Scale
        THEN [bucket |-> [b1 EXCEPT !.tokens = t1 - 1 * Scale], ok |-> TRUE]
        ELSE [bucket |-> b1, ok |-> FALSE]

\* consume taking the token also from a request it rejects.
consume_charges_rejected(b, now) ==
    LET t1 == Refill(b, now)
        b1 == [b EXCEPT !.tokens = t1, !.last_refill = now]
    IN  IF t1 >= 1 * Scale
        THEN [bucket |-> [b1 EXCEPT !.tokens = t1 - 1 * Scale], ok |-> TRUE]
        ELSE [bucket |-> [b1 EXCEPT !.tokens = Max(0, t1 - 1 * Scale)],
              ok |-> FALSE]

\* consume admitting only above one token (> for >=).
consume_strict(b, now) ==
    LET t1 == Refill(b, now)
        b1 == [b EXCEPT !.tokens = t1, !.last_refill = now]
    IN  IF t1 > 1 * Scale
        THEN [bucket |-> [b1 EXCEPT !.tokens = t1 - 1 * Scale], ok |-> TRUE]
        ELSE [bucket |-> b1, ok |-> FALSE]

\* consume that admits without storing the decremented level.
consume_lost_update(b, now) ==
    LET t1 == Refill(b, now)
        b1 == [b EXCEPT !.tokens = t1, !.last_refill = now]
    IN  [bucket |-> b1, ok |-> t1 >= 1 * Scale]

\* TokenBucket.consume(tokens = 1): the bucket after the call and its result.
consume(b, now) ==
    LET t1 == Refill(b, now)
        b1 == [b EXCEPT !.tokens = t1, !.last_refill = now]
    IN  IF t1 >= 1 * Scale
        THEN [bucket |-> [b1 EXCEPT !.tokens = t1 - 1 * Scale], ok |-> TRUE]
        ELSE [bucket |-> b1, ok |-> FALSE]

\* TokenBucket.get_retry_after: the quotient (1 - tokens) / refill_rate as
\* numerator and denominator; den = 0 is the float division by zero, which
\* raises ZeroDivisionError.
get_retry_after(b) ==
    IF b.tokens >= Scale
    THEN [num |-> 0, den |-> 1]
    ELSE [num |-> Scale - b.tokens, den |-> b.refill_rate]

\* _get_or_create_bucket that keeps one bucket for all the keys: creating the
\* bucket of key replaces every bucket of the map.
get_or_create_bucket_shared(bs, key, limit, now) ==
    IF bs[key] = NoBucket
    THEN [k \in DOMAIN bs |-> TokenBucket(limit, limit, now)]
    ELSE bs

\* _get_or_create_bucket that makes a new bucket when the limit of the key
\* is no longer the capacity of its bucket.
get_or_create_bucket_follows_limit(bs, key, limit, now) ==
    IF bs[key] = NoBucket \/ bs[key].capacity # limit
    THEN [bs EXCEPT ![key] = TokenBucket(limit, limit, now)]
    ELSE bs

\* RateLimiter._get_or_create_bucket: the bucket map after the call.
\* refill_rate = capacity / 60.0 tokens per second = capacity sixtieths.
get_or_create_bucket(bs, key, limit, now) ==
    IF bs[key] = NoBucket
    THEN [bs EXCEPT ![key] = TokenBucket(limit, limit, now)]
    ELSE bs

\* check_rate_limit reporting int(retry_after) without the + 1.
check_rate_limit_floor(bs, key, limit, now) ==
    LET bs1 == get_or_create_bucket(bs, key, limit, now)
        c == consume(bs1[key], now)
        bs2 == [bs1 EXCEPT ![key] = c.bucket]
        ra == get_retry_after(c.bucket)
    IN  IF c.ok
        THEN [buckets |-> bs2, outcome |-> "ok", retry_after |-> 0]
        ELSE IF ra.den = 0
             THEN [buckets |-> bs2, outcome |-> "error", retry_after |-> 0]
             ELSE [buckets |-> bs2, outcome |-> "throttled",
                   retry_after |-> ra.num \div ra.den]

\* RateLimiter.check_rate_limit: the bucket map after the call and what the
\* call does: returns ("ok"), raises HTTPException 429 with Retry-After
\* ("throttled"), or raises ZeroDivisionError ("error").
check_rate_limit(bs, key, limit, now) ==
    LET bs1 == get_or_create_bucket(bs, key, limit, now)
        c == consume(bs1[key], now)
        bs2 == [bs1 EXCEPT ![key] = c.bucket]
        ra == get_retry_after(c.bucket)
    IN  IF c.ok
        THEN [buckets |-> bs2, outcome |-> "ok", retry_after |-> 0]
        ELSE IF ra.den = 0
             THEN [buckets |-> bs2, outcome |-> "error", retry_after |-> 0]
             ELSE [buckets |-> bs2, outcome |-> "throttled",
                   retry_after |-> (ra.num \div ra.den) + 1]

\* ---------------------------------------------------------------- providers

Providers == {"openai", "deepseek", "huggingface"}

\* What the upstream HTTP API does with one POST.
Upstream == {"http200", "timeout", "http429", "http503", "http500", "http400"}

\* The ProviderError subclasses of providers/base.py.
ProviderErrors ==
    {"ProviderError", "ProviderTimeoutError", "ProviderRateLimitError"}

NoExc == [class |-> "none", provider |-> "none", cause |-> "none"]

\* The response of a call that raised.
NoResponse ==
    [provider |-> "none", model |-> "none", tokens_in |-> 0, tokens_out |-> 0,
     request_id |-> "none"]

Raise(class, provider, cause) ==
    [ok |-> FALSE,
     exc |-> [class |-> class, provider |-> provider, cause |-> cause],
     response |-> NoResponse]

\* ProviderResponse(content, model, tokens_in, tokens_out, request_id, ...);
\* usage is the pair of token counts.
Return(provider, model, usage, request_id) ==
    [ok |-> TRUE, exc |-> NoExc,
     response |-> [provider |-> provider, model |-> model,
                   tokens_in |-> usage[1], tokens_out |-> usage[2],
                   request_id |-> request_id]]

\* OpenAIProvider.chat_completions: the key check, then the POST with the
\* model asked for ("none" is None: gpt-3.5-turbo); the upstream echoes the
\* model of the payload and reports usage and its own id.
OpenAIChat(hasKey, up, model, usage) ==
    IF ~hasKey THEN Raise("ProviderError", "openai", "nokey")
    ELSE IF up = "http200"
    THEN Return("openai", IF model = "none" THEN "gpt-3.5-turbo" ELSE model,
                usage, "chatcmpl")
    ELSE IF up = "timeout" THEN Raise("ProviderTimeoutError", "openai", up)
    ELSE IF up = "http429" THEN Raise("ProviderRateLimitError", "openai", up)
    ELSE Raise("ProviderError", "openai", up)

\* DeepSeekProvider.chat_completions: the same wire format and error mapping
\* as the OpenAI adapter, with deepseek-chat as the default model.
DeepSeekChat(hasKey, up, model, usage) ==
    IF ~hasKey THEN Raise("ProviderError", "deepseek", "nokey")
    ELSE IF up = "http200"
    THEN Return("deepseek", IF model = "none" THEN "deepseek-chat" ELSE model,
                usage, "chatcmpl")
    ELSE IF up = "timeout" THEN Raise("ProviderTimeoutError", "deepseek", up)
    ELSE IF up = "http429" THEN Raise("ProviderRateLimitError", "deepseek", up)
    ELSE Raise("ProviderError", "deepseek", up)

\* HuggingFaceProvider.chat_completions: a 503 raises ProviderError inside the
\* try block and is wrapped again by its catch-all, still a ProviderError.
\* The response carries `model or "llama-3"`, token counts estimated from the
\* lengths of prompt and content, and an id made by the adapter.
HuggingFaceChat(hasKey, up, model, usage) ==
    IF ~hasKey THEN Raise("ProviderError", "huggingface", "nokey")
    ELSE IF up = "http503" THEN Raise("ProviderError", "huggingface", up)
    ELSE IF up = "http200"
    THEN Return("huggingface", IF model = "none" THEN "llama-3" ELSE model,
                usage, "hf")
    ELSE IF up = "timeout"
    THEN Raise("ProviderTimeoutError", "huggingface", up)
    ELSE IF up = "http429"
    THEN Raise("ProviderRateLimitError", "huggingface", up)
    ELSE Raise("ProviderError", "huggingface", up)

\* provider.chat_completions(messages, model, ...) of the provider named p.
ChatCompletions(p, hasKey, up, model, usage) ==
    CASE p = "openai" -> OpenAIChat(hasKey, up, model, usage)
      [] p = "deepseek" -> DeepSeekChat(hasKey, up, model, usage)
      [] p = "huggingface" -> HuggingFaceChat(hasKey, up, model, usage)

\* ------------------------------------------------------------------ routing

Tasks == {"none", "summarization", "reasoning", "general"}

Budgets == {"none", "low", "medium", "high"}

\* rules.get_provider_fallback_chain
get_provider_fallback_chain == <<"openai", "deepseek", "huggingface">>

\* str.lower() on the provider names that are given with capitals.
Lower(name) ==
    CASE name = "OpenAI" -> "openai"
      [] name = "HF" -> "hf"
      [] OTHER -> name

\* rules.select_provider_by_name: the provider registered under name.lower(),
\* or ValueError when there is none.
select_provider_by_name(name) ==
    CASE Lower(name) = "openai" -> "openai"
      [] Lower(name) = "deepseek" -> "deepseek"
      [] Lower(name) = "huggingface" -> "huggingface"
      [] Lower(name) = "hf" -> "huggingface"
      [] OTHER -> "ValueError"

\* select_provider that looks at latency_sensitive before it looks at task.
select_provider_latency_first(task, budget, latency_sensitive, provider_override) ==
    IF provider_override \notin {"none", ""}
    THEN select_provider_by_name(provider_override)
    ELSE IF latency_sensitive THEN select_provider_by_name("openai")
    ELSE IF task = "summarization" THEN select_provider_by_name("deepseek")
    ELSE IF task = "reasoning" THEN select_provider_by_name("huggingface")
    ELSE IF budget = "low" THEN select_provider_by_name("deepseek")
    ELSE IF budget = "high" THEN select_provider_by_name("openai")
    ELSE select_provider_by_name("openai")

\* router.select_provider; provider_override "none" is None, and
\* `if provider_override:` is false for None and for the empty string.
select_provider(task, budget, latency_sensitive, provider_override) ==
    IF provider_override \notin {"none", ""}
    THEN select_provider_by_name(provider_override)
    ELSE IF task = "summarization" THEN select_provider_by_name("deepseek")
    ELSE IF task = "reasoning" THEN select_provider_by_name("huggingface")
    ELSE IF latency_sensitive THEN select_provider_by_name("openai")
    ELSE IF budget = "low" THEN select_provider_by_name("deepseek")
    ELSE IF budget = "high" THEN select_provider_by_name("openai")
    ELSE select_provider_by_name("openai")

\* s[:n]
Take(s, n) == SubSeq(s, 1, Min(n, Len(s)))

\* providers_to_try that leaves the primary at its place in the chain.
providers_to_try_chain_order(primary) ==
    Take(get_provider_fallback_chain, 3)

\* providers_to_try without the filter that removes the primary.
providers_to_try_unfiltered(primary) ==
    <<primary>> \o Take(get_provider_fallback_chain, 2)

\* routes.chat_completions, providers_to_try:
\* [primary] + [p for p in fallback_chain if p.name != primary.name][:2]
providers_to_try(primary) ==
    LET NotPrimary(p) == p # primary
    IN  <<primary>> \o Take(SelectSeq(get_provider_fallback_chain, NotPrimary), 2)

\* ----------------------------------------------------------- authentication

\* The bearer tokens presented: the key of each tenant (named after it) and a
\* token that is no tenant's key.
Bearers == Tenants \cup {"invalid"}

\* api_key.verify_api_key: does the stored hash of tenant k verify the token.
verify_api_key(bearer, k) == bearer = k

\* get_api_key that scans every stored key, active or not.
get_api_key_any_stored(bearer, activeKeys) ==
    IF \E k \in Tenants : verify_api_key(bearer, k)
    THEN CHOOSE k \in Tenants : verify_api_key(bearer, k)
    ELSE "401"

\* api_key.get_api_key: the active tenant whose hash verifies the bearer
\* token, or "401" (HTTPException 401) when there is none.
get_api_key(bearer, activeKeys) ==
    IF \E k \in activeKeys : verify_api_key(bearer, k)
    THEN CHOOSE k \in activeKeys : verify_api_key(bearer, k)
    ELSE "401"

\* ------------------------------------------------------------ cost tracking

\* tracker.PRICING, per 1K tokens, in units of 10^-5 USD.
PRICING ==
    [openai |->
        [m \in {"gpt-4", "gpt-4-turbo-preview", "gpt-3.5-turbo",
                "gpt-3.5-turbo-16k"} |->
            CASE m = "gpt-4" -> [input |-> 3000, output |-> 6000]
              [] m = "gpt-4-turbo-preview" -> [input |-> 1000, output |-> 3000]
              [] m = "gpt-3.5-turbo" -> [input |-> 150, output |-> 200]
              [] m = "gpt-3.5-turbo-16k" -> [input |-> 300, output |-> 400]],
     deepseek |->
        [m \in {"deepseek-chat", "deepseek-coder"} |->
            [input |-> 14, output |-> 28]],
     huggingface |->
        [m \in {"llama-3", "mixtral", "qwen",
                "meta-llama/Meta-Llama-3-8B-Instruct",
                "mistralai/Mixtral-8x7B-Instruct-v0.1",
                "Qwen/Qwen2-7B-Instruct"} |->
            [input |-> 0, output |-> 0]]]

\* next(iter(provider_pricing.values())): the first model of each provider.
FirstModel ==
    [openai |-> "gpt-4", deepseek |-> "deepseek-chat",
     huggingface |-> "llama-3"]

\* calculate_cost that rounds its result to six fractional digits.
calculate_cost_rounded(provider, model, tokens_in, tokens_out) ==
    IF provider \notin DOMAIN PRICING THEN 0
    ELSE LET provider_pricing == PRICING[provider]
             model_pricing ==
                 IF model \in DOMAIN provider_pricing
                 THEN provider_pricing[model]
                 ELSE provider_pricing[FirstModel[provider]]
         IN  ((tokens_in * model_pricing.input
                 + tokens_out * model_pricing.output + 50) \div 100) * 100

\* calculate_cost that prices whole thousands of tokens only.
calculate_cost_floored(provider, model, tokens_in, tokens_out) ==
    IF provider \notin DOMAIN PRICING THEN 0
    ELSE LET provider_pricing == PRICING[provider]
             model_pricing ==
                 IF model \in DOMAIN provider_pricing
                 THEN provider_pricing[model]
                 ELSE provider_pricing[FirstModel[provider]]
         IN  (tokens_in \div 1000) * 1000 * model_pricing.input
               + (tokens_out \div 1000) * 1000 * model_pricing.output

\* calculate_cost that halves the input price above 1000 input tokens.
calculate_cost_discount(provider, model, tokens_in, tokens_out) ==
    IF provider \notin DOMAIN PRICING THEN 0
    ELSE LET provider_pricing == PRICING[provider]
             model_pricing ==
                 IF model \in DOMAIN provider_pricing
                 THEN provider_pricing[model]
                 ELSE provider_pricing[FirstModel[provider]]
         IN  (IF tokens_in > 1000
              THEN (tokens_in * model_pricing.input) \div 2
              ELSE tokens_in * model_pricing.input)
               + tokens_out * model_pricing.output

\* calculate_cost that prices a model the provider does not list at zero.
calculate_cost_unlisted_free(provider, model, tokens_in, tokens_out) ==
    IF provider \notin DOMAIN PRICING THEN 0
    ELSE LET provider_pricing == PRICING[provider]
         IN  IF model \in DOMAIN provider_pricing
             THEN tokens_in * provider_pricing[model].input
                    + tokens_out * provider_pricing[model].output
             ELSE 0

\* tracker.calculate_cost, exact as the Decimal arithmetic is, in units of
\* 10^-8 USD: (tokens / 1000) * price per 1K, input plus output; the first
\* model's prices for a model the provider does not list; 0 for a provider
\* that is not in the table.
calculate_cost(provider, model, tokens_in, tokens_out) ==
    IF provider \notin DOMAIN PRICING THEN 0
    ELSE LET provider_pricing == PRICING[provider]
             model_pricing ==
                 IF model \in DOMAIN provider_pricing
                 THEN provider_pricing[model]
                 ELSE provider_pricing[FirstModel[provider]]
         IN  tokens_in * model_pricing.input
               + tokens_out * model_pricing.output

\* The model names that contain "gpt", "deepseek", and one of "llama",
\* "mixtral", "qwen" once put in lower case: the models of PRICING and the
\* other names a client can ask for.
GptModels ==
    {"gpt-4", "gpt-4-turbo-preview", "gpt-3.5-turbo", "gpt-3.5-turbo-16k",
     "GPT-4", "gpt2", "gpt-llama"}

DeepseekModels ==
    {"deepseek-chat", "deepseek-coder",
     "deepseek-ai/DeepSeek-R1-Distill-Llama-8B"}

OpenSourceModels ==
    {"llama-3", "mixtral", "qwen", "meta-llama/Meta-Llama-3-8B-Instruct",
     "mistralai/Mixtral-8x7B-Instruct-v0.1", "Qwen/Qwen2-7B-Instruct",
     "gpt-llama", "deepseek-ai/DeepSeek-R1-Distill-Llama-8B"}

\* record_cost that looks for "llama", "mixtral" and "qwen" before it looks
\* for "gpt" and "deepseek".
ProviderOfModel_open_source_first(model) ==
    IF model \in OpenSourceModels THEN "huggingface"
    ELSE IF model \in GptModels THEN "openai"
    ELSE IF model \in DeepseekModels THEN "deepseek"
    ELSE "unknown"

\* tracker.record_cost, the provider it derives from the model name.
ProviderOfModel(model) ==
    IF model \in GptModels THEN "openai"
    ELSE IF model \in DeepseekModels THEN "deepseek"
    ELSE IF model \in OpenSourceModels THEN "huggingface"
    ELSE "unknown"

\* cost_records.cost_usd is Numeric(10, 6): the value the column holds, and
\* db.refresh reads back, for a cost of c * 10^-8 USD, in units of 10^-6 USD.
Numeric6(c) == (c + 50) \div 100

\* tracker.record_cost: the CostRecord it builds (latency_ms and created_at
\* left out) and whether `db.add; db.commit; db.refresh` went through
\* (stored) or raised.
record_cost(api_key, provider_response, request_id, stored) ==
    LET provider == ProviderOfModel(provider_response.model)
        cost_usd == calculate_cost(provider, provider_response.model,
                                   provider_response.tokens_in,
                                   provider_response.tokens_out)
    IN  [ok |-> stored,
         row |-> [api_key_id |-> api_key,
                  request_id |-> request_id,
                  provider |-> provider,
                  model |-> provider_response.model,
                  tokens_in |-> provider_response.tokens_in,
                  tokens_out |-> provider_response.tokens_out,
                  cost_usd |-> Numeric6(cost_usd)]]

\* ------------------------------------------------------------------ metrics

\* One update of a Prometheus metric: counter.labels(...).inc(amount) or
\* histogram.labels(...).observe(...); labels in the order of the metric.
Sample(metric, l1, l2, l3, amount) ==
    [metric |-> metric, l1 |-> l1, l2 |-> l2, l3 |-> l3, amount |-> amount]

\* prometheus.record_request
record_request(api_key_id, provider, status) ==
    Sample("llm_gateway_requests_total", api_key_id, provider, status, 1)

\* prometheus.record_error
record_error(api_key_id, provider, error_type) ==
    Sample("llm_gateway_errors_total", api_key_id, provider, error_type, 1)

\* prometheus.record_fallback
record_fallback(api_key_id, from_provider, to_provider) ==
    Sample("llm_gateway_fallbacks_total", api_key_id, from_provider, to_provider, 1)

\* prometheus.record_cost (the counter, in units of 10^-6 USD)
record_cost_metric(api_key_id, provider, model, cost_usd) ==
    Sample("llm_gateway_cost_total", api_key_id, provider, model, cost_usd)

\* prometheus.record_latency: one observation (its value is not modelled)
record_latency(api_key_id, provider) ==
    Sample("llm_gateway_latency_seconds", api_key_id, provider, "", 1)

\* -------------------------------------------------------- fallback executor

\* The body of a response that is not a completion.
NoBody ==
    [id |-> "none", model |-> "none", provider |-> "none",
     prompt_tokens |-> 0, completion_tokens |-> 0, total_tokens |-> 0,
     cost_usd |-> 0]

\* The writes and the metric updates of the steps after the provider call
\* that go through (TRUE) or raise (FALSE).
NoFaults == [cost |-> TRUE, log |-> TRUE, metrics |-> TRUE]

\* A chat-completion handler that holds no request.  The locals of
\* chat_completions and call_with_fallback, the response (status, Retry-After
\* and body), and what this request has committed to cost_records and
\* request_logs and sent to the metrics (cost_rows, log_rows, emitted).
\* History: admit is what the rate-limit check did; invoked, failed and
\* lastCause are the providers whose chat_completions was called, in order,
\* how many of these calls have failed, and how the latest one ended; steps
\* is the sequence of pipeline steps entered; faults is which of the late
\* steps raised; bearer is the token the request presented; cooled_ms is
\* the time the request has spent in asyncio.sleep.
IdleReq ==
    [pc |-> "idle", bearer |-> "none", key |-> "none", model |-> "none",
     request_id |-> "none",
     primary |-> "none", providers |-> <<>>,
     i |-> 0, last_exception |-> NoExc, fallback_used |-> FALSE,
     invoked |-> <<>>, failed |-> 0, lastCause |-> "none",
     status |-> 0, detail |-> NoExc, response |-> NoResponse,
     provider_used |-> "none",
     fallback_flag |-> FALSE, retry_after |-> 0, cooled_ms |-> 0,
     admit |-> "none", steps |-> <<>>, faults |-> NoFaults,
     cost_usd |-> 0, cost_rows |-> <<>>, log_rows |-> <<>>,
     emitted |-> <<>>, body |-> NoBody]

\* FallbackStep that never sets fallback_used.
FallbackStep_no_flag(q, res) ==
    IF res.ok
    THEN [q EXCEPT !.pc = "returned",
                   !.response = res.response,
                   !.provider_used = q.providers[q.i],
                   !.fallback_flag = q.fallback_used]
    ELSE IF q.i < Len(q.providers)
    THEN [q EXCEPT !.last_exception = res.exc, !.pc = "sleeping"]
    ELSE [q EXCEPT !.last_exception = res.exc, !.pc = "raised",
                   !.detail = res.exc]

\* FallbackStep that gives up at once on a 4xx of the upstream.
FallbackStep_fatal_stops(q, res) ==
    IF res.ok
    THEN [q EXCEPT !.pc = "returned",
                   !.response = res.response,
                   !.provider_used = q.providers[q.i],
                   !.fallback_flag = q.fallback_used]
    ELSE IF q.i < Len(q.providers) /\ res.exc.cause # "http400"
    THEN [q EXCEPT !.last_exception = res.exc, !.fallback_used = TRUE,
                   !.pc = "sleeping"]
    ELSE [q EXCEPT !.last_exception = res.exc, !.pc = "raised",
                   !.detail = res.exc]

\* FallbackStep that surfaces the first error it saw instead of the last.
FallbackStep_first_error(q, res) ==
    LET first == IF q.last_exception = NoExc THEN res.exc
                 ELSE q.last_exception
    IN  IF res.ok
        THEN [q EXCEPT !.pc = "returned",
                       !.response = res.response,
                       !.provider_used = q.providers[q.i],
                       !.fallback_flag = q.fallback_used]
        ELSE IF q.i < Len(q.providers)
        THEN [q EXCEPT !.last_exception = first, !.fallback_used = TRUE,
                       !.pc = "sleeping"]
        ELSE [q EXCEPT !.last_exception = first, !.pc = "raised",
                       !.detail = first]

\* FallbackStep that treats an exception outside the ProviderError classes
\* like a provider error: it wraps it and goes on to the next provider.
FallbackStep_unexpected_falls_over(q, res) ==
    LET wrapped == [class |-> "ProviderError",
                    provider |-> q.providers[q.i],
                    cause |-> "unexpected"]
        e == IF res.exc.class \in ProviderErrors THEN res.exc ELSE wrapped
    IN  IF res.ok
        THEN [q EXCEPT !.pc = "returned",
                       !.response = res.response,
                       !.provider_used = q.providers[q.i],
                       !.fallback_flag = q.fallback_used]
        ELSE IF q.i < Len(q.providers)
        THEN [q EXCEPT !.last_exception = e, !.fallback_used = TRUE,
                       !.pc = "sleeping"]
        ELSE [q EXCEPT !.last_exception = e, !.pc = "raised",
                       !.detail = e]

\* One turn of the loop of call_with_fallback, from the outcome res of
\* `await provider.chat_completions(...)` for providers[i]: return at the
\* first success; on a provider error remember it and, unless this was the
\* last provider, mark the fallback and sleep; otherwise re-raise it; wrap
\* any other exception in a ProviderError and raise that.
FallbackStep(q, res) ==
    IF res.ok
    THEN [q EXCEPT !.pc = "returned",
                   !.response = res.response,
                   !.provider_used = q.providers[q.i],
                   !.fallback_flag = q.fallback_used]
    ELSE IF res.exc.class \in ProviderErrors
    THEN IF q.i < Len(q.providers)
         THEN [q EXCEPT !.last_exception = res.exc,
                        !.fallback_used = TRUE,
                        !.pc = "sleeping"]
         ELSE [q EXCEPT !.last_exception = res.exc,
                        !.pc = "raised",
                        !.detail = res.exc]
    ELSE [q EXCEPT !.pc = "raised",
                   !.detail = [class |-> "ProviderError",
                               provider |-> q.providers[q.i],
                               cause |-> "unexpected"]]

\* raise HTTPException(status_code, ..., headers={"Retry-After": ...})
HTTPException(status_code, retry_after) ==
    [class |-> "HTTPException", status_code |-> status_code,
     retry_after |-> retry_after]

\* Any exception that is not an HTTPException.
OtherException(class) ==
    [class |-> class, status_code |-> 0, retry_after |-> 0]

\* Except without the clause that re-raises an HTTPException: whatever is
\* raised inside the handler is counted as an error and becomes HTTP 500.
Except_catch_all(q, e) ==
    [q EXCEPT !.pc = "done", !.status = 500,
              !.emitted =
                  Append(@, record_error(
                      q.key,
                      IF q.provider_used = "none" THEN "unknown"
                      ELSE q.provider_used,
                      e.class))]

\* The except clauses of the outer try of chat_completions: an HTTPException
\* is re-raised as it is; any other exception is counted as an error under
\* `provider_used or "unknown"` and becomes HTTP 500.
Except(q, e) ==
    IF e.class = "HTTPException"
    THEN [q EXCEPT !.pc = "done", !.status = e.status_code,
                   !.retry_after = e.retry_after]
    ELSE [q EXCEPT !.pc = "done", !.status = 500,
                   !.emitted =
                       Append(@, record_error(
                           q.key,
                           IF q.provider_used = "none" THEN "unknown"
                           ELSE q.provider_used,
                           e.class))]

\* ProviderFailure that writes a request log with status "failure" and
\* counts the request before it raises HTTP 503.
ProviderFailure_logs_failure(q) ==
    Except([q EXCEPT
               !.log_rows =
                   Append(@, [request_id |-> q.request_id,
                              api_key_id |-> q.key,
                              provider_used |-> "unknown",
                              status |-> "failure"]),
               !.emitted =
                   @ \o <<record_error(q.key, "unknown", q.detail.class),
                          record_request(q.key, "unknown", "failure")>>],
           HTTPException(503, 0))

\* chat_completions, `except ProviderError as e` around call_with_fallback:
\* one error is counted, under the provider "unknown" (provider_used is still
\* None) and the class of e, and HTTP 503 carrying str(e) is raised.
ProviderFailure(q) ==
    Except([q EXCEPT !.emitted =
                Append(@, record_error(q.key, "unknown", q.detail.class))],
           HTTPException(503, 0))

\* CostStep that reports the computed cost although the write raised.
CostStep_reports_unwritten(q, stored) ==
    LET rc == record_cost(q.key, q.response, q.request_id, stored)
        q1 == [q EXCEPT !.steps = Append(@, "cost"), !.faults.cost = stored]
    IN  IF rc.ok
        THEN [q1 EXCEPT !.cost_rows = Append(@, rc.row),
                        !.cost_usd = rc.row.cost_usd]
        ELSE [q1 EXCEPT !.cost_usd = rc.row.cost_usd]

\* chat_completions, cost: record_cost and float(cost_record.cost_usd) in a
\* try of their own; on any exception cost_usd = 0.0 and the handler goes on.
CostStep(q, stored) ==
    LET rc == record_cost(q.key, q.response, q.request_id, stored)
        q1 == [q EXCEPT !.steps = Append(@, "cost"), !.faults.cost = stored]
    IN  IF rc.ok
        THEN [q1 EXCEPT !.cost_rows = Append(@, rc.row),
                        !.cost_usd = rc.row.cost_usd]
        ELSE [q1 EXCEPT !.cost_usd = 0]

\* LogStep that logs the router's primary as provider_used.
LogStep_logs_primary(q, stored) ==
    LET row == [request_id |-> q.request_id,
                api_key_id |-> q.key,
                provider_used |-> q.primary,
                status |-> "success"]
        q1 == [q EXCEPT !.steps = Append(@, "log"), !.faults.log = stored]
    IN  IF stored
        THEN [q1 EXCEPT !.log_rows = Append(@, row)]
        ELSE q1

\* LogStep whose write shares the transaction of the cost write: the
\* rollback after a failed commit takes the Cost Record with it.
LogStep_one_transaction(q, stored) ==
    LET row == [request_id |-> q.request_id,
                api_key_id |-> q.key,
                provider_used |-> q.provider_used,
                status |-> "success"]
        q1 == [q EXCEPT !.steps = Append(@, "log"), !.faults.log = stored]
    IN  IF stored
        THEN [q1 EXCEPT !.log_rows = Append(@, row)]
        ELSE [q1 EXCEPT !.cost_rows = <<>>]

\* chat_completions, request log: RequestLog(...), db.add and db.commit in a
\* try of their own; on any exception db.rollback() and the handler goes on.
\* The row's task, budget and latency_sensitive are left out.
LogStep(q, stored) ==
    LET row == [request_id |-> q.request_id,
                api_key_id |-> q.key,
                provider_used |-> q.provider_used,
                status |-> "success"]
        q1 == [q EXCEPT !.steps = Append(@, "log"), !.faults.log = stored]
    IN  IF stored
        THEN [q1 EXCEPT !.log_rows = Append(@, row)]
        ELSE q1

\* MetricsStep that counts a fallback on every request.
MetricsStep_counts_every_request(q, sent) ==
    LET q1 == [q EXCEPT !.steps = Append(@, "metrics"),
                        !.faults.metrics = sent]
        three == <<record_request(q.key, q.provider_used, "success"),
                   record_cost_metric(q.key, q.provider_used,
                                      q.response.model, q.cost_usd),
                   record_latency(q.key, q.provider_used)>>
        fourth == <<record_fallback(q.key, q.primary, q.provider_used)>>
    IN  IF sent
        THEN [q1 EXCEPT
                !.emitted = @ \o three \o fourth,
                !.pc = "done",
                !.status = 200,
                !.body = [id |-> q.response.request_id,
                          model |-> q.response.model,
                          provider |-> q.provider_used,
                          prompt_tokens |-> q.response.tokens_in,
                          completion_tokens |-> q.response.tokens_out,
                          total_tokens |-> q.response.tokens_in
                                             + q.response.tokens_out,
                          cost_usd |-> q.cost_usd]]
        ELSE Except(q1, OtherException("Exception"))

\* MetricsStep whose response reports the completion tokens as the total.
MetricsStep_total_is_completion(q, sent) ==
    LET q1 == [q EXCEPT !.steps = Append(@, "metrics"),
                        !.faults.metrics = sent]
        three == <<record_request(q.key, q.provider_used, "success"),
                   record_cost_metric(q.key, q.provider_used,
                                      q.response.model, q.cost_usd),
                   record_latency(q.key, q.provider_used)>>
        fourth == IF q.fallback_flag
                  THEN <<record_fallback(q.key, q.primary, q.provider_used)>>
                  ELSE <<>>
    IN  IF sent
        THEN [q1 EXCEPT
                !.emitted = @ \o three \o fourth,
                !.pc = "done",
                !.status = 200,
                !.body = [id |-> q.response.request_id,
                          model |-> q.response.model,
                          provider |-> q.provider_used,
                          prompt_tokens |-> q.response.tokens_in,
                          completion_tokens |-> q.response.tokens_out,
                          total_tokens |-> q.response.tokens_out,
                          cost_usd |-> q.cost_usd]]
        ELSE Except(q1, OtherException("Exception"))

\* chat_completions, metrics and return: record_request, record_cost_metric,
\* record_latency, record_fallback if fallback_used, then the
\* ChatCompletionResponse.  These calls are in no try of their own: when one
\* raises (here the first), the exception goes to the outer except clauses.
MetricsStep(q, sent) ==
    LET q1 == [q EXCEPT !.steps = Append(@, "metrics"),
                        !.faults.metrics = sent]
        three == <<record_request(q.key, q.provider_used, "success"),
                   record_cost_metric(q.key, q.provider_used,
                                      q.response.model, q.cost_usd),
                   record_latency(q.key, q.provider_used)>>
        fourth == IF q.fallback_flag
                  THEN <<record_fallback(q.key, q.primary, q.provider_used)>>
                  ELSE <<>>
    IN  IF sent
        THEN [q1 EXCEPT
                !.emitted = @ \o three \o fourth,
                !.pc = "done",
                !.status = 200,
                !.body = [id |-> q.response.request_id,
                          model |-> q.response.model,
                          provider |-> q.provider_used,
                          prompt_tokens |-> q.response.tokens_in,
                          completion_tokens |-> q.response.tokens_out,
                          total_tokens |-> q.response.tokens_in
                                             + q.response.tokens_out,
                          cost_usd |-> q.cost_usd]]
        ELSE Except(q1, OtherException("Exception"))

\* Finish that writes the request log before it records the cost.
Finish_log_first(q, faults) ==
    MetricsStep(CostStep(LogStep(q, faults.log), faults.cost), faults.metrics)

\* chat_completions after call_with_fallback has returned: cost, then the
\* request log, then metrics and the response.
Finish(q, faults) ==
    MetricsStep(LogStep(CostStep(q, faults.cost), faults.log), faults.metrics)

\* routes.chat_completions from the end of the await of call_with_fallback
\* to the response: a ProviderError becomes HTTP 503; a returned response
\* goes through cost, request log and metrics to HTTP 200.
Conclude(q, faults) ==
    IF q.pc = "raised" THEN ProviderFailure(q)
    ELSE IF q.pc = "returned" THEN Finish(q, faults)
    ELSE q

\* The outcome res of the invocation of providers[i] reaches the handler.
Land(q, res, cause, faults) ==
    Conclude(FallbackStep(
                 [q EXCEPT !.failed = IF res.ok THEN @ ELSE @ + 1,
                           !.lastCause = cause], res),
             faults)

\* The loop of call_with_fallback reaches providers[i] and calls its
\* chat_completions: without an API key the adapter raises before it awaits
\* anything (so nothing is written on this path), otherwise the handler is
\* suspended in the POST.
Enter(q, keys) ==
    LET p == q.providers[q.i]
        q1 == [q EXCEPT !.invoked = Append(@, p),
                        !.steps = Append(@, "invoke")]
    IN  IF p \in keys
        THEN [q1 EXCEPT !.pc = "calling"]
        ELSE Land(q1, ChatCompletions(p, FALSE, "none", q.model, <<0, 0>>),
                  "nokey", NoFaults)

\* ------------------------------------------------------------------ state

VARIABLES
    clock,      \* the reading of time.time(), in whole seconds
    limits,     \* api_keys.rate_limit_per_minute of every tenant
    buckets,    \* rate_limiter.buckets: tenant -> TokenBucket, or NoBucket
    configured, \* the providers whose API key is set in settings
    req,        \* the chat-completion handlers, one per request slot
    last,       \* history: what the last check_rate_limit on tenant "A" did,
                \* when, and the bucket's level and timestamp before it
    pending,    \* history: earliest clock reading at which a Retry-After
                \* reported to tenant "A" has run out (-1: none outstanding)
    hist,       \* history: Ok / Throttled counts of tenant "A" before the
                \* first clock advance after its bucket was created (A) and
                \* between the first and the second one (B)
    nticks,     \* number of clock advances so far (single-bucket runs)
    burst,      \* history, per tenant: the clock reading of its latest
                \* check_rate_limit, the level its bucket held (after the
                \* refill) at the first check made at that reading, and how
                \* many requests were admitted at that reading
    route,      \* the arguments of select_provider and what its calls
                \* returned, in order (router runs)
    active,     \* the tenants whose api_keys row has is_active = True
    costing,    \* the arguments of calculate_cost and what its calls
                \* returned, in order (cost runs)
    preview,    \* the latest response of GET /v1/routing/preview
    adapter     \* the calls of chat_completions made on the adapters alone
                \* and what each of them did, in order (adapter runs)

vars ==
    <<clock, limits, buckets, configured, req, last, pending, hist, nticks,
      burst, route, active, costing, preview, adapter>>

\* No routing preview made.
NoPreview == [selected_provider |-> "none", fallback_chain |-> <<>>]

\* No call of calculate_cost on its own.
NoCosting ==
    [provider |-> "none", model |-> "none", tokens_in |-> 0, tokens_out |-> 0,
     more_in |-> 0, more_out |-> 0, costs |-> <<>>]

\* No call of select_provider on its own.
NoRoute ==
    [task |-> "none", budget |-> "none", latency_sensitive |-> FALSE,
     provider_override |-> "none", results |-> <<>>]

\* ----------------------------------------- the single-bucket specification

\* Capacities (rate_limit_per_minute) explored for one bucket.
BucketCapacities == {0, 1, 2, 7, 60}

\* Seconds by which the clock advances in one step.
TickSteps == {1, 8, 30, 60}

NoLast == [outcome |-> "none", retry_after |-> 0, waited |-> FALSE,
           at |-> 0, tokens0 |-> 0, last_refill0 |-> 0]

NoBurst == [at |-> -1, level0 |-> 0, ok |-> 0]

NoHist == [ticks |-> 0, d1 |-> 0, okA |-> 0, thrA |-> FALSE,
           okB |-> 0, thrB |-> FALSE]

\* hist after the clock advanced by d: only runs of a created bucket count,
\* and nothing is kept once the second advance has happened.
HistTick(h, d, exists) ==
    IF ~exists THEN h
    ELSE IF h.ticks = 0 THEN [h EXCEPT !.ticks = 1, !.d1 = d]
    ELSE [NoHist EXCEPT !.ticks = 2]

\* hist after one check_rate_limit with the given outcome.
HistAdmit(h, outcome) ==
    IF h.ticks = 0
    THEN [h EXCEPT !.okA = IF outcome = "ok" THEN @ + 1 ELSE @,
                   !.thrA = @ \/ outcome # "ok"]
    ELSE IF h.ticks = 1
    THEN [h EXCEPT !.okB = IF outcome = "ok" THEN @ + 1 ELSE @,
                   !.thrB = @ \/ outcome # "ok"]
    ELSE h

\* pending after one check_rate_limit at clock reading now.
PendingAdmit(p, res, now) ==
    IF res.outcome = "ok" THEN -1
    ELSE IF res.outcome = "throttled"
    THEN IF p = -1 THEN now + res.retry_after
         ELSE Min(p, now + res.retry_after)
    ELSE p

InitBucket ==
    /\ clock = 0
    /\ limits \in [Tenants -> BucketCapacities]
    /\ limits["B"] = 60
    /\ buckets = [k \in Tenants |-> NoBucket]
    /\ configured = {}
    /\ req = <<>>
    /\ last = NoLast
    /\ pending = -1
    /\ hist = NoHist
    /\ nticks = 0
    /\ burst = [k \in Tenants |-> NoBurst]
    /\ route = NoRoute
    /\ active = Tenants
    /\ costing = NoCosting
    /\ preview = NoPreview
    /\ adapter = <<>>

\* The clock advances by d seconds (time.time() is monotone).
BucketTick ==
    /\ nticks < MaxTicks
    /\ \E d \in TickSteps :
        /\ clock' = clock + d
        /\ hist' = HistTick(hist, d, buckets["A"] # NoBucket)
    /\ nticks' = nticks + 1
    /\ UNCHANGED <<limits, buckets, configured, req, last, pending, burst,
                   route, active, costing, preview, adapter>>

\* One rate_limiter.check_rate_limit(api_key) for tenant "A".
BucketAdmit ==
    LET res == check_rate_limit(buckets, "A", limits["A"], clock)
        b0 == get_or_create_bucket(buckets, "A", limits["A"], clock)["A"]
    IN  /\ buckets' = res.buckets
        /\ last' = [outcome |-> res.outcome,
                    retry_after |-> res.retry_after,
                    waited |-> pending # -1 /\ clock >= pending,
                    at |-> clock,
                    tokens0 |-> b0.tokens,
                    last_refill0 |-> b0.last_refill]
        /\ pending' = PendingAdmit(pending, res, clock)
        /\ hist' = HistAdmit(hist, res.outcome)
        /\ UNCHANGED <<clock, limits, configured, req, nticks, burst, route,
                       active, costing, preview, adapter>>

NextBucket == BucketTick \/ BucketAdmit

SpecBucket == InitBucket /\ [][NextBucket]_vars

\* ------------------------------------------------ the request specification

\* Bound on the clock of the request specification.
MaxClock == 1

\* Number of handlers that can be in flight at once.
NumReqs == 2

Reqs == 1 .. NumReqs

\* Capacities (rate_limit_per_minute) of the tenants of the request runs.
PipelineCapacities == {0, 1, 2}

\* The sets of providers whose API key the environment sets.
ConfigChoices == {Providers, {"deepseek"}}

\* burst[key] after a check_rate_limit of tenant key at reading now, which
\* found the bucket b0 (just created, if it was missing) and did outcome.
BurstAdmit(u, b0, outcome, now) ==
    LET u0 == IF u.at = now THEN u
              ELSE [at |-> now,
                    level0 |-> Min(b0.capacity * Scale,
                                   b0.tokens
                                     + (now - b0.last_refill) * b0.refill_rate),
                    ok |-> 0]
    IN  IF outcome = "ok" THEN [u0 EXCEPT !.ok = @ + 1] ELSE u0

Init ==
    /\ clock = 0
    /\ limits \in [Tenants -> PipelineCapacities]
    /\ buckets = [k \in Tenants |-> NoBucket]
    /\ configured \in ConfigChoices
    /\ req = [r \in Reqs |-> IdleReq]
    /\ last = NoLast
    /\ pending = -1
    /\ hist = NoHist
    /\ nticks = 0
    /\ burst = [k \in Tenants |-> NoBurst]
    /\ route = NoRoute
    /\ active = Tenants
    /\ costing = NoCosting
    /\ preview = NoPreview
    /\ adapter = <<>>

\* The clock advances by one second.
Tick ==
    /\ clock < MaxClock
    /\ clock' = clock + 1
    /\ UNCHANGED <<limits, buckets, configured, req, last, pending, hist,
                   nticks, burst, route, active, costing, preview, adapter>>

\* The models a client names in its request ("none": no model).
ModelChoices == {"none", "gpt-4"}

\* The token counts (in, out) a provider reports for its completion.
UsageChoices == {<<1000, 500>>, <<1, 0>>}

\* Which of the cost write, the request-log write and the metric updates go
\* through.
FaultChoices == [cost : BOOLEAN, log : BOOLEAN, metrics : BOOLEAN]

\* One request from the dependency get_api_key to the first await of
\* chat_completions: authentication (401 before the handler is entered), the
\* rate-limit check (429, or 500 through the except clauses when it raises
\* anything but an HTTPException), the router, the provider list, and the
\* call of call_with_fallback up to the first provider's POST.
Receive(r, bearers, tasks, budgets, latencies, models) ==
    /\ req[r].pc = "idle"
    /\ \E bearer \in bearers, task \in tasks, budget \in budgets,
          latency_sensitive \in latencies, model \in models :
        LET api_key == get_api_key(bearer, active)
        IN  IF api_key = "401"
            THEN /\ req' = [req EXCEPT ![r] =
                              [IdleReq EXCEPT !.pc = "done", !.status = 401,
                                              !.steps = <<"auth">>,
                                              !.bearer = bearer]]
                 /\ UNCHANGED <<buckets, burst, costing, preview, adapter>>
            ELSE LET key == api_key
                     rl == check_rate_limit(buckets, key, limits[key], clock)
                     b0 == get_or_create_bucket(buckets, key, limits[key],
                                                clock)[key]
                     primary == select_provider(task, budget,
                                                latency_sensitive, "none")
                     q0 == [IdleReq EXCEPT !.bearer = bearer,
                                           !.key = key, !.model = model,
                                           !.request_id = "req",
                                           !.steps = <<"auth", "admit">>,
                                           !.admit = rl.outcome]
                     q1 == [q0 EXCEPT !.steps = Append(@, "route"),
                                      !.primary = primary,
                                      !.providers = providers_to_try(primary),
                                      !.i = 1]
                 IN  /\ buckets' = rl.buckets
                     /\ burst' = [burst EXCEPT
                            ![key] = BurstAdmit(@, b0, rl.outcome, clock)]
                     /\ req' = [req EXCEPT ![r] =
                           IF rl.outcome = "throttled"
                           THEN Except(q0, HTTPException(429, rl.retry_after))
                           ELSE IF rl.outcome = "error"
                           THEN Except(q0,
                                       OtherException("ZeroDivisionError"))
                           ELSE Enter(q1, configured)]
    /\ UNCHANGED <<clock, limits, configured, last, pending, hist, nticks,
                   route, active, costing, preview, adapter>>

\* Respond that puts the token back into the tenant's bucket when the
\* request ends in 503.
Respond_refunds_on_failure(r, ups, usages, faultsets) ==
    /\ req[r].pc = "calling"
    /\ \E up \in ups, usage \in usages, faults \in faultsets :
        LET q == Land(req[r], ChatCompletions(req[r].providers[req[r].i],
                                              TRUE, up, req[r].model, usage),
                      up, faults)
        IN  /\ req' = [req EXCEPT ![r] = q]
            /\ buckets' =
                 IF q.status = 503
                 THEN [buckets EXCEPT ![q.key].tokens =
                          Min(@ + Scale, buckets[q.key].capacity * Scale)]
                 ELSE buckets
    /\ UNCHANGED <<clock, limits, configured, last, pending, hist,
                   nticks, burst, route, active, costing, preview, adapter>>

\* The POST to providers[i] ends with the upstream outcome up, and the
\* handler runs on to its next await or to its response.
Respond(r, ups, usages, faultsets) ==
    /\ req[r].pc = "calling"
    /\ \E up \in ups, usage \in usages, faults \in faultsets :
        req' = [req EXCEPT ![r] =
                  Land(@, ChatCompletions(@.providers[@.i], TRUE, up,
                                          @.model, usage),
                       up, faults)]
    /\ UNCHANGED <<clock, limits, buckets, configured, last, pending, hist,
                   nticks, burst, route, active, costing, preview, adapter>>

\* The delay of asyncio.sleep(0.5), in milliseconds.
CoolDownMs == 500

\* Wake after a second asyncio.sleep(0.5) in a row.
Wake_slept_twice(r) ==
    /\ req[r].pc = "sleeping"
    /\ req' = [req EXCEPT ![r] =
                  Enter([@ EXCEPT !.i = @ + 1,
                                  !.cooled_ms = @ + 2 * CoolDownMs],
                        configured)]
    /\ UNCHANGED <<clock, limits, buckets, configured, last, pending, hist,
                   nticks, burst, route, active, costing, preview, adapter>>

\* Wake that never returns from the second asyncio.sleep(0.5) of a request.
Wake_second_sleep_hangs(r) ==
    /\ req[r].pc = "sleeping"
    /\ req[r].i = 1
    /\ req' = [req EXCEPT ![r] =
                  Enter([@ EXCEPT !.i = @ + 1,
                                  !.cooled_ms = @ + CoolDownMs],
                        configured)]
    /\ UNCHANGED <<clock, limits, buckets, configured, last, pending, hist,
                   nticks, burst, route, active, costing, preview, adapter>>

\* asyncio.sleep(0.5) of call_with_fallback is over: the loop goes on to the
\* next provider.
Wake(r) ==
    /\ req[r].pc = "sleeping"
    /\ req' = [req EXCEPT ![r] =
                  Enter([@ EXCEPT !.i = @ + 1,
                                  !.cooled_ms = @ + CoolDownMs],
                        configured)]
    /\ UNCHANGED <<clock, limits, buckets, configured, last, pending, hist,
                   nticks, burst, route, active, costing, preview, adapter>>

\* The response has gone to the client; the handler is free again.
Deliver(r) ==
    /\ req[r].pc = "done"
    /\ req' = [req EXCEPT ![r] = IdleReq]
    /\ UNCHANGED <<clock, limits, buckets, configured, last, pending, hist,
                   nticks, burst, route, active, costing, preview, adapter>>

\* One client that sends its next request when it has the response to the
\* last one: every tenant, every hint, every upstream outcome.
Next ==
    \/ Tick
    \/ Receive(1, Bearers, Tasks, Budgets, BOOLEAN, ModelChoices)
    \/ Respond(1, Upstream, UsageChoices, FaultChoices)
    \/ Wake(1)
    \/ Deliver(1)

Spec == Init /\ [][Next]_vars

\* ------------------------------------------- the concurrent specification

\* NumReqs handlers in flight at once for requests of tenant "A" without
\* hints, interleaved at their awaits (the POST and the cool-down sleep);
\* the upstreams answer 200 or time out.
InitConc ==
    /\ Init
    /\ configured = Providers

NextConc ==
    \/ Tick
    \/ \E r \in Reqs :
           Receive(r, {"A"}, {"none"}, {"none"}, BOOLEAN, {"none"})
    \/ \E r \in Reqs :
           Respond(r, {"http200", "timeout"}, {<<1000, 500>>}, {NoFaults})
    \/ \E r \in Reqs : Wake(r)
    \/ \E r \in Reqs : Deliver(r)

SpecConc == InitConc /\ [][NextConc]_vars

\* ----------------------------------------- the authentication specification

\* The api_keys row of tenant k gets is_active = False (done on the
\* database; no endpoint of the gateway does it).
Deactivate(k) ==
    /\ k \in active
    /\ active' = active \ {k}
    /\ UNCHANGED <<clock, limits, buckets, configured, req, last, pending,
                   hist, nticks, burst, route, costing, preview, adapter>>

\* One client presenting any bearer token, request after request, while
\* tenants are deactivated; no hints, upstreams answer 200 or time out.
InitAuth ==
    /\ Init
    /\ configured = Providers

NextAuth ==
    \/ \E k \in Tenants : Deactivate(k)
    \/ Receive(1, Bearers, {"none"}, {"none"}, BOOLEAN, {"none"})
    \/ Respond(1, {"http200", "timeout"}, {<<1000, 500>>}, {NoFaults})
    \/ Wake(1)
    \/ Deliver(1)

SpecAuth == InitAuth /\ [][NextAuth]_vars

\* ----------------------------------------------- the preview specification

\* preview_routing that does not pass latency_sensitive to the router.
PreviewRouting_without_latency ==
    /\ LET selected_provider ==
               select_provider(route.task, route.budget, FALSE, "none")
           fallback_chain == get_provider_fallback_chain
       IN  preview' = [selected_provider |-> selected_provider,
                       fallback_chain |-> fallback_chain]
    /\ UNCHANGED <<clock, limits, buckets, configured, req, last, pending,
                   hist, nticks, burst, route, active, costing, adapter>>

\* routes.preview_routing: GET /v1/routing/preview with the hints kept in
\* route; the response's selected_provider and fallback_chain.
PreviewRouting ==
    /\ LET selected_provider ==
               select_provider(route.task, route.budget,
                               route.latency_sensitive, "none")
           fallback_chain == get_provider_fallback_chain
       IN  preview' = [selected_provider |-> selected_provider,
                       fallback_chain |-> fallback_chain]
    /\ UNCHANGED <<clock, limits, buckets, configured, req, last, pending,
                   hist, nticks, burst, route, active, costing, adapter>>

\* One set of hints (task, budget, latency_sensitive), previewed and sent
\* as chat completions by tenant "A"; all upstream outcomes.
InitPreview ==
    /\ clock = 0
    /\ limits = [k \in Tenants |-> 2]
    /\ buckets = [k \in Tenants |-> NoBucket]
    /\ configured \in ConfigChoices
    /\ req = [r \in Reqs |-> IdleReq]
    /\ last = NoLast
    /\ pending = -1
    /\ hist = NoHist
    /\ nticks = 0
    /\ burst = [k \in Tenants |-> NoBurst]
    /\ active = Tenants
    /\ costing = NoCosting
    /\ preview = NoPreview
    /\ adapter = <<>>
    /\ \E task \in Tasks, budget \in Budgets, latency_sensitive \in BOOLEAN :
        route = [NoRoute EXCEPT !.task = task, !.budget = budget,
                                !.latency_sensitive = latency_sensitive]

NextPreview ==
    \/ PreviewRouting
    \/ Receive(1, {"A"}, {route.task}, {route.budget},
               {route.latency_sensitive}, {"none"})
    \/ Respond(1, Upstream, {<<1000, 500>>}, {NoFaults})
    \/ Wake(1)
    \/ Deliver(1)

SpecPreview == InitPreview /\ [][NextPreview]_vars

\* ------------------------------------------------ the executor specification

\* The exception classes an implementation of LLMProvider.chat_completions
\* can raise that are not ProviderError or a subclass of it.
UnexpectedErrors == {"RuntimeError"}

\* chat_completions of providers[i] raises an exception that is not a
\* ProviderError while the handler awaits it, and the handler runs on to
\* its response.
RaiseUnexpected(r) ==
    /\ req[r].pc = "calling"
    /\ \E class \in UnexpectedErrors :
        req' = [req EXCEPT ![r] =
                  Land(@, Raise(class, @.providers[@.i], "unexpected"),
                       "unexpected", NoFaults)]
    /\ UNCHANGED <<clock, limits, buckets, configured, last, pending, hist,
                   nticks, burst, route, active, costing, preview, adapter>>

\* call_with_fallback over providers that answer, fail with a provider
\* error, or raise something else: requests of tenant "A" with every task.
InitExecutor ==
    /\ Init
    /\ limits = [k \in Tenants |-> 2]

NextExecutor ==
    \/ Receive(1, {"A"}, Tasks, {"none"}, {FALSE}, {"none"})
    \/ Respond(1, Upstream, {<<1000, 500>>}, {NoFaults})
    \/ RaiseUnexpected(1)
    \/ Wake(1)
    \/ Deliver(1)

SpecExecutor == InitExecutor /\ [][NextExecutor]_vars

\* ------------------------------------------- the bucket-lifetime specification

\* The api_keys row of tenant k gets another rate_limit_per_minute (done on
\* the database; no endpoint of the gateway does it).
SetRateLimit(k) ==
    /\ \E limit \in PipelineCapacities :
        /\ limit # limits[k]
        /\ limits' = [limits EXCEPT ![k] = limit]
    /\ UNCHANGED <<clock, buckets, configured, req, last, pending, hist,
                   nticks, burst, route, active, costing, preview, adapter>>

\* NumReqs handlers in flight at once for requests of tenant "A" while the
\* clock advances and the tenant's limit is changed; the upstreams answer
\* 200 or time out.
InitLifetime ==
    /\ Init
    /\ configured = Providers
    /\ limits["B"] = 1

NextLifetime ==
    \/ Tick
    \/ SetRateLimit("A")
    \/ \E r \in Reqs :
           Receive(r, {"A"}, {"none"}, {"none"}, {FALSE}, {"none"})
    \/ \E r \in Reqs :
           Respond(r, {"http200", "timeout"}, {<<1000, 500>>}, {NoFaults})
    \/ \E r \in Reqs : Wake(r)
    \/ \E r \in Reqs : Deliver(r)

SpecLifetime == InitLifetime /\ [][NextLifetime]_vars

\* ------------------------------------------------ the adapter specification

\* Number of adapter calls of one run.
MaxCalls == 2

\* One call provider.chat_completions(messages, model) on the adapter of any
\* provider, with or without its API key, whatever the upstream does; kept
\* with what happened to it (cause: the key was missing, or the outcome of
\* the POST).
InvokeAdapter ==
    /\ Len(adapter) < MaxCalls
    /\ \E p \in Providers, hasKey \in BOOLEAN, up \in Upstream,
          model \in ModelChoices :
        adapter' = Append(adapter,
                      [cause |-> IF hasKey THEN up ELSE "nokey",
                       res |-> ChatCompletions(p, hasKey, up, model,
                                               <<1000, 500>>)])
    /\ UNCHANGED <<clock, limits, buckets, configured, req, last, pending,
                   hist, nticks, burst, route, active, costing, preview>>

InitAdapter == Init /\ configured = Providers /\ limits = [k \in Tenants |-> 1]

NextAdapter == InvokeAdapter

SpecAdapter == InitAdapter /\ [][NextAdapter]_vars

\* -------------------------------------------- the attribution specification

\* The models a client names in its request: none, models of the pricing
\* table, the same in capitals, names that hold two of the words record_cost
\* looks for, models of the HuggingFace hub whose name holds "gpt" or
\* "deepseek", and a name that holds none of the words.
AttributionModels ==
    {"none", "gpt-4", "GPT-4", "gpt2", "gpt-llama", "deepseek-chat",
     "deepseek-ai/DeepSeek-R1-Distill-Llama-8B", "mixtral",
     "Qwen/Qwen2-7B-Instruct", "claude-3"}

\* Requests of tenant "A" with every task and every model of
\* AttributionModels; the upstreams answer 200 or time out.
InitAttribution ==
    /\ Init
    /\ configured = Providers
    /\ limits = [k \in Tenants |-> 2]

NextAttribution ==
    \/ Receive(1, {"A"}, Tasks, {"none"}, {FALSE}, AttributionModels)
    \/ Respond(1, {"http200", "timeout"}, {<<1000, 500>>}, {NoFaults})
    \/ Wake(1)
    \/ Deliver(1)

SpecAttribution == InitAttribution /\ [][NextAttribution]_vars

\* --------------------------------------------- the termination specification

\* Requests of tenant "A" with every task, providers that answer, fail with
\* a provider error or raise something else, and late steps that go through
\* or raise.
InitLive ==
    /\ Init
    /\ limits = [k \in Tenants |-> 2]

\* An awaited chat_completions ends: the upstream answers or the timeout of
\* the httpx client runs out, or the adapter raises something else.
InvocationEnds ==
    \/ Respond(1, Upstream, {<<1000, 500>>}, FaultChoices)
    \/ RaiseUnexpected(1)

NextLive ==
    \/ Receive(1, {"A"}, Tasks, {"none"}, {FALSE}, {"none"})
    \/ InvocationEnds
    \/ Wake(1)
    \/ Deliver(1)

\* The event loop resumes a handler whose await is over: every invocation
\* ends (settings.provider_timeout bounds the POST) and every
\* asyncio.sleep(0.5) returns.
SpecLive ==
    /\ InitLive
    /\ [][NextLive]_vars
    /\ WF_vars(InvocationEnds)
    /\ WF_vars(Wake(1))

\* ------------------------------------------------ the router specification

\* The values of provider_override: None, the empty string, the registered
\* names and the alias, names with capitals, and an unregistered name.
Overrides ==
    {"none", "", "openai", "deepseek", "huggingface", "hf", "OpenAI", "HF",
     "mistral"}

\* select_provider on its own: any arguments, no gateway state.
InitRouter ==
    /\ clock = 0
    /\ limits = [k \in Tenants |-> 0]
    /\ buckets = [k \in Tenants |-> NoBucket]
    /\ configured = {}
    /\ req = <<>>
    /\ last = NoLast
    /\ pending = -1
    /\ hist = NoHist
    /\ nticks = 0
    /\ burst = [k \in Tenants |-> NoBurst]
    /\ active = Tenants
    /\ costing = NoCosting
    /\ preview = NoPreview
    /\ adapter = <<>>
    /\ \E task \in Tasks, budget \in Budgets, latency_sensitive \in BOOLEAN,
          provider_override \in Overrides :
        route = [NoRoute EXCEPT !.task = task, !.budget = budget,
                                !.latency_sensitive = latency_sensitive,
                                !.provider_override = provider_override]

\* One call select_provider(task, budget, latency_sensitive,
\* provider_override); the same arguments are passed again by a second call.
RouterSelect ==
    /\ Len(route.results) < 2
    /\ route' = [route EXCEPT !.results =
                   Append(@, select_provider(route.task, route.budget,
                                             route.latency_sensitive,
                                             route.provider_override))]
    /\ UNCHANGED <<clock, limits, buckets, configured, req, last, pending,
                   hist, nticks, burst, active, costing, preview, adapter>>

NextRouter == RouterSelect

SpecRouter == InitRouter /\ [][NextRouter]_vars

\* -------------------------------------------------- the cost specification

\* The providers calculate_cost is called with: those of the pricing table
\* and one that is not in it.
CostProviders == {"openai", "deepseek", "huggingface", "unknown"}

\* The models calculate_cost is called with: listed ones and one that no
\* provider lists.
CostModels ==
    {"gpt-4", "gpt-3.5-turbo", "deepseek-chat", "llama-3", "gpt-4o"}

\* Token counts of one side, and by how much the second call's count is
\* larger.
TokenCounts == {0, 1, 500, 999, 1000, 2500}

TokenSteps == {0, 1, 1000}

\* calculate_cost on its own: any arguments, no gateway state.
InitCost ==
    /\ clock = 0
    /\ limits = [k \in Tenants |-> 0]
    /\ buckets = [k \in Tenants |-> NoBucket]
    /\ configured = {}
    /\ req = <<>>
    /\ last = NoLast
    /\ pending = -1
    /\ hist = NoHist
    /\ nticks = 0
    /\ burst = [k \in Tenants |-> NoBurst]
    /\ route = NoRoute
    /\ active = Tenants
    /\ preview = NoPreview
    /\ adapter = <<>>
    /\ \E provider \in CostProviders, model \in CostModels,
          tokens_in \in TokenCounts, tokens_out \in TokenCounts,
          more_in \in TokenSteps, more_out \in TokenSteps :
        costing = [NoCosting EXCEPT !.provider = provider, !.model = model,
                                    !.tokens_in = tokens_in,
                                    !.tokens_out = tokens_out,
                                    !.more_in = more_in,
                                    !.more_out = more_out]

\* One call calculate_cost(provider, model, tokens_in, tokens_out); a second
\* call passes the token counts raised by more_in and more_out.
CalculateCost ==
    /\ Len(costing.costs) < 2
    /\ LET more == Len(costing.costs) = 1
           tokens_in == costing.tokens_in
                          + (IF more THEN costing.more_in ELSE 0)
           tokens_out == costing.tokens_out
                           + (IF more THEN costing.more_out ELSE 0)
       IN  costing' = [costing EXCEPT !.costs =
                          Append(@, calculate_cost(costing.provider,
                                                   costing.model,
                                                   tokens_in, tokens_out))]
    /\ UNCHANGED <<clock, limits, buckets, configured, req, last, pending,
                   hist, nticks, burst, route, active, preview, adapter>>

NextCost == CalculateCost

SpecCost == InitCost /\ [][NextCost]_vars

\* ------------------------------------------ claims on the fallback executor

\* The error kind of the taxonomy that the cause of a failed invocation
\* falls under.
Taxonomy(cause) ==
    CASE cause = "timeout" -> "Timeout"
      [] cause = "http429" -> "RateLimitUpstream"
      [] cause = "http503" -> "TransientUpstream"
      [] cause = "http500" -> "TransientUpstream"
      [] cause = "http400" -> "FatalUpstream"
      [] cause = "nokey" -> "MisconfiguredUpstream"
      [] OTHER -> "none"

TaxonomyErrors ==
    {"Timeout", "RateLimitUpstream", "TransientUpstream", "FatalUpstream",
     "MisconfiguredUpstream"}

\* C1: for every request each provider is invoked at most once and at most
\* three invocations are made, whatever the providers do.
C1_OncePerProviderAtMostThree ==
    \A r \in Reqs :
        /\ Len(req[r].invoked) <= 3
        /\ \A a, b \in 1 .. Len(req[r].invoked) :
               a # b => req[r].invoked[a] # req[r].invoked[b]

\* C1 witness: a request that went through three failing providers.
C1_Witness ==
    \E r \in Reqs :
        /\ Len(req[r].invoked) = 3
        /\ req[r].failed = 3
        /\ req[r].primary = "openai"
        /\ req[r].lastCause = "http429"

\* C2: the providers are invoked in list order, provider i+1 only after
\* provider i failed, none after the first success; the call returns the
\* response and the name of the provider that succeeded, and fallback_used
\* is true exactly when that provider is not the first of the list.
C2_InOrderUntilFirstSuccess ==
    \A r \in Reqs :
        LET q == req[r]
            n == Len(q.invoked)
        IN  /\ n <= Len(q.providers)
            /\ q.invoked = SubSeq(q.providers, 1, n)
            /\ n <= q.failed + 1
            /\ q.pc \in {"calling", "sleeping"} => q.lastCause # "http200"
            /\ q.status = 200 =>
                 /\ q.lastCause = "http200"
                 /\ q.failed = n - 1
                 /\ q.provider_used = q.invoked[n]
                 /\ q.response.provider = q.invoked[n]
                 /\ q.fallback_flag <=> (q.provider_used # q.providers[1])

\* C2 witness: the third provider of the list serves the request.
C2_Witness ==
    \E r \in Reqs :
        /\ req[r].status = 200
        /\ req[r].failed = 2
        /\ req[r].provider_used = req[r].providers[3]
        /\ req[r].fallback_flag

\* C3: a failure of any kind of the taxonomy at a provider that is not the
\* last of the list does not end the walk: the executor cools down and goes
\* on to the next provider.
C3_EveryErrorKindFallsOver ==
    \A r \in Reqs :
        LET q == req[r]
            n == Len(q.invoked)
        IN  /\ q.failed >= 1 => Taxonomy(q.last_exception.cause) \in TaxonomyErrors
            /\ (q.failed = n /\ n >= 1 /\ n < Len(q.providers)) =>
                 /\ q.pc = "sleeping"
                 /\ q.status = 0
            /\ q.status = 503 => n = Len(q.providers)

\* C3 witness: the second provider is being invoked after the first one
\* failed with a 4xx.
C3_Witness ==
    \E r \in Reqs :
        /\ req[r].pc = "calling"
        /\ Len(req[r].invoked) = 2
        /\ req[r].failed = 1
        /\ Taxonomy(req[r].last_exception.cause) = "FatalUpstream"

\* C4: when every provider fails, the request ends with 503 carrying the
\* error of the last provider attempted, after exactly three invocations.
C4_AllFail503LastError ==
    \A r \in Reqs :
        LET q == req[r]
        IN  /\ q.status = 503 =>
                 /\ Len(q.invoked) = 3
                 /\ q.failed = 3
                 /\ q.detail.provider = q.invoked[3]
                 /\ q.detail.cause = q.lastCause
            /\ (q.pc = "done" /\ q.failed = 3) => q.status = 503

\* C4 witness: the first two providers have no API key, the last one times
\* out; the 503 carries the timeout.
C4_Witness ==
    \E r \in Reqs :
        /\ req[r].status = 503
        /\ req[r].primary = "huggingface"
        /\ configured = {"deepseek"}
        /\ req[r].detail = [class |-> "ProviderTimeoutError",
                            provider |-> "deepseek", cause |-> "timeout"]

\* -------------------------------------------------- claims on concurrency

\* C10: Admits on a tenant's bucket are serialised: of the handlers that run
\* concurrently at one clock reading, starting from level t, at most
\* floor(t) are admitted, and every admission takes exactly one token off the
\* level (no update is lost, no token is spent twice).
C10_AdmitSerialised ==
    \A k \in Tenants :
        buckets[k] # NoBucket =>
            /\ burst[k].ok * Scale <= burst[k].level0
            /\ buckets[k].tokens = burst[k].level0 - burst[k].ok * Scale

\* C10 witness: two requests of tenant "A" admitted at the same clock
\* reading are in flight together, one in its cool-down and one in its POST;
\* they took the two tokens of the bucket.
C10_Witness ==
    /\ limits["A"] = 2
    /\ req[1].pc = "sleeping"
    /\ req[2].pc = "calling"
    /\ burst["A"].ok = 2
    /\ burst["A"].level0 = 2 * Scale
    /\ buckets["A"].tokens = 0

\* ------------------------------------------------ claims on the token bucket

\* C5: after every operation (admitted or throttled, under a clock that only
\* advances) the level t of every bucket satisfies 0 <= t <= R.
C5_LevelWithinCapacity ==
    \A k \in Tenants :
        buckets[k] # NoBucket =>
            /\ 0 <= buckets[k].tokens
            /\ buckets[k].tokens <= buckets[k].capacity * Scale

\* C5 witness: a bucket that has been throttled, has then refilled over an
\* idle minute up to its capacity and has admitted a request again.
C5_Witness ==
    /\ buckets["A"] # NoBucket
    /\ limits["A"] = 2
    /\ hist.ticks = 2
    /\ clock >= 60
    /\ last.outcome = "ok"
    /\ last.at - last.last_refill0 >= 60
    /\ buckets["A"].tokens = (limits["A"] - 1) * Scale

\* The level min(R, t + (now - last_refill) * r) the last Admit refilled to,
\* from the level and timestamp recorded before it (r = R/60 per second).
C6_Refilled ==
    Min(limits["A"] * Scale,
        last.tokens0 + (last.at - last.last_refill0) * limits["A"])

\* C6: Admit refills to t' = min(R, t + (now - last_refill) * r) and sets
\* last_refill to now; it returns Ok exactly when t' >= 1, leaving t' - 1
\* (within [0, R]); a rejected Admit leaves t', consuming no token.
C6_AdmitRefillsThenTakesOne ==
    last.outcome # "none" =>
        /\ buckets["A"].last_refill = last.at
        /\ (last.outcome = "ok") <=> (C6_Refilled >= Scale)
        /\ last.outcome = "ok" =>
             /\ buckets["A"].tokens = C6_Refilled - Scale
             /\ 0 <= buckets["A"].tokens
             /\ buckets["A"].tokens <= limits["A"] * Scale
        /\ last.outcome # "ok" => buckets["A"].tokens = C6_Refilled

\* C6 witness: an Admit that came after a partial refill (level strictly
\* between 1 and R after the refill) and was admitted.
C6_Witness ==
    /\ last.outcome = "ok"
    /\ last.at > last.last_refill0
    /\ C6_Refilled > last.tokens0
    /\ C6_Refilled < limits["A"] * Scale
    /\ buckets["A"].tokens = C6_Refilled - Scale

\* C7 (as claimed): a request throttled at refilled level t < 1 is told
\* Retry-After = ceil((1 - t) / r) seconds, and at least 1.
C7_RetryAfterIsCeiling ==
    (last.outcome = "throttled" /\ limits["A"] > 0) =>
        last.retry_after =
            Max(1, CeilDiv(Scale - buckets["A"].tokens, limits["A"]))

\* C8: from a fresh bucket with no time elapsing exactly R Admits succeed and
\* the next is rejected; after that, left idle for d seconds, exactly
\* min(R, floor(d * r)) further Admits made at that instant succeed.
C8_ExactlyCapacityThenRefill ==
    /\ hist.okA <= limits["A"]
    /\ hist.thrA => hist.okA = limits["A"]
    /\ (hist.ticks = 1 /\ hist.okA = limits["A"]) =>
         LET more == Min(limits["A"], (hist.d1 * limits["A"]) \div Scale)
         IN  /\ hist.okB <= more
             /\ hist.thrB => hist.okB = more

\* C8 witness: capacity 60; 60 admitted at the instant of creation, the 61st
\* rejected; 30 s later exactly 30 more admitted and the next rejected.
C8_Witness ==
    /\ limits["A"] = 60
    /\ hist.ticks = 1
    /\ hist.okA = 60
    /\ hist.thrA
    /\ hist.d1 = 30
    /\ hist.okB = 30
    /\ hist.thrB

\* C9: the reported Retry-After is sufficient: an Admit made when the
\* Retry-After of an earlier rejection has run out, no request of the tenant
\* having been admitted in between, is admitted.
C9_RetryAfterSuffices ==
    last.waited => last.outcome = "ok"

\* C9 witness: an Admit admitted after waiting out a Retry-After that was
\* reported at a fractional level (capacity 7: the level is k/60 of a token).
C9_Witness ==
    /\ last.waited
    /\ last.outcome = "ok"
    /\ limits["A"] = 7
    /\ last.tokens0 % Scale # 0

\* ------------------------------------------------- claims on the pipeline

\* C11: an Admit for one tenant (admitted or throttled, its bucket created on
\* the way or not) leaves the bucket of every other tenant as it was: level,
\* last-refill timestamp, capacity and rate.
C11_OtherBucketsUntouched ==
    [][\A r \in Reqs : \A k \in Tenants :
          (req[r].pc = "idle" /\ req'[r].pc # "idle" /\ req'[r].key # k)
              => buckets'[k] = buckets[k]]_vars

\* C11 witness: tenant B spent a token at clock 0; a second later the bucket
\* of tenant A was created and charged while B's bucket still holds the level
\* and the timestamp of clock 0.
C11_Witness ==
    /\ clock = 1
    /\ buckets["B"] # NoBucket
    /\ buckets["B"].last_refill = 0
    /\ buckets["B"].tokens < buckets["B"].capacity * Scale
    /\ req[1].pc # "idle"
    /\ req[1].key = "A"
    /\ buckets["A"] # NoBucket
    /\ buckets["A"].last_refill = 1

\* The provider registered under a name of provider_override.
Registered(name) ==
    CASE name \in {"openai", "OpenAI"} -> "openai"
      [] name = "deepseek" -> "deepseek"
      [] name \in {"huggingface", "hf", "HF"} -> "huggingface"
      [] OTHER -> "none"

\* C12: the router returns the first matching row of its table (override ->
\* that provider; summarization -> deepseek; reasoning -> huggingface;
\* latency_sensitive -> openai; budget low -> deepseek; budget high -> openai;
\* otherwise openai), and a second call with the same arguments returns what
\* the first one returned.
C12_FirstMatchingRow ==
    \A n \in 1 .. Len(route.results) :
        LET result == route.results[n]
            over == route.provider_override \notin {"none", ""}
            summ == ~over /\ route.task = "summarization"
            reas == ~over /\ route.task = "reasoning"
            rest == ~over /\ ~summ /\ ~reas
        IN  /\ (over /\ Registered(route.provider_override) # "none")
                   => result = Registered(route.provider_override)
            /\ (over /\ Registered(route.provider_override) = "none")
                   => result \notin Providers
            /\ summ => result = "deepseek"
            /\ reas => result = "huggingface"
            /\ (rest /\ route.latency_sensitive) => result = "openai"
            /\ (rest /\ ~route.latency_sensitive /\ route.budget = "low")
                   => result = "deepseek"
            /\ (rest /\ ~route.latency_sensitive /\ route.budget = "high")
                   => result = "openai"
            /\ (rest /\ ~route.latency_sensitive
                     /\ route.budget \notin {"low", "high"})
                   => result = "openai"
            /\ result = route.results[1]

\* C12 witness: task = summarization together with latency_sensitive and
\* budget = high, routed twice to deepseek.
C12_Witness ==
    /\ route.provider_override = "none"
    /\ route.task = "summarization"
    /\ route.latency_sensitive
    /\ route.budget = "high"
    /\ route.results = <<"deepseek", "deepseek">>

\* C13: the provider list handed to the fallback executor is the router's
\* primary followed by the canonical chain openai, deepseek, huggingface
\* without the primary, in canonical order: at most three entries, no
\* provider twice.
C13_PrimaryThenCanonicalChain ==
    \A r \in Reqs :
        req[r].providers # <<>> =>
            /\ req[r].providers[1] = req[r].primary
            /\ req[r].primary = "openai" =>
                   req[r].providers = <<"openai", "deepseek", "huggingface">>
            /\ req[r].primary = "deepseek" =>
                   req[r].providers = <<"deepseek", "openai", "huggingface">>
            /\ req[r].primary = "huggingface" =>
                   req[r].providers = <<"huggingface", "openai", "deepseek">>
            /\ Len(req[r].providers) <= 3
            /\ \A a, b \in 1 .. Len(req[r].providers) :
                   a # b => req[r].providers[a] # req[r].providers[b]

\* C13 witness: a request routed to huggingface, the last of the canonical
\* chain, has reached the second entry of its list, openai.
C13_Witness ==
    /\ req[1].primary = "huggingface"
    /\ req[1].providers = <<"huggingface", "openai", "deepseek">>
    /\ req[1].invoked = <<"huggingface", "openai">>

\* C14: every request ends in one terminal outcome: 401 when the bearer is
\* not authenticated, 429 with a Retry-After when the rate-limit check
\* throttles it, 503 when every provider of its list failed, 500 when
\* anything else raised inside the handler, 200 otherwise; the 429 and the
\* 503 raised inside the handler are the status the client gets.
C14_OneTerminalOutcome ==
    \A r \in Reqs :
        req[r].pc = "done" =>
            LET q == req[r]
                unauthenticated == q.key = "none"
                throttled == q.admit = "throttled"
                allFailed == q.admit = "ok" /\ q.failed = Len(q.providers)
                internal == q.admit = "error" \/ ~q.faults.metrics
            IN  /\ q.status \in {401, 429, 503, 500, 200}
                /\ q.status = 401 <=> unauthenticated
                /\ q.status = 429 <=> throttled
                /\ q.status = 429 => q.retry_after >= 1
                /\ q.status = 503 <=> allFailed
                /\ q.status = 500 <=> internal
                /\ q.status = 200 <=>
                       ~(unauthenticated \/ throttled \/ allFailed
                           \/ internal)

\* C14 witness: the HTTP 503 raised after the third provider failed is what
\* the client gets.
C14_Witness ==
    /\ req[1].pc = "done"
    /\ req[1].status = 503
    /\ req[1].failed = 3
    /\ req[1].detail.class \in ProviderErrors

\* The place of a step in the pipeline.
StepRank(step) ==
    CASE step = "auth" -> 1
      [] step = "admit" -> 2
      [] step = "route" -> 3
      [] step = "invoke" -> 4
      [] step = "cost" -> 5
      [] step = "log" -> 6
      [] step = "metrics" -> 7

\* The steps s were entered in pipeline order from authentication on, none
\* skipped, none but the provider invocation repeated, and that one at most
\* three times.
StepsInOrder(s) ==
    /\ s # <<>> => s[1] = "auth"
    /\ \A n \in 1 .. Len(s) - 1 :
        \/ StepRank(s[n + 1]) = StepRank(s[n]) + 1
        \/ s[n] = "invoke" /\ s[n + 1] = "invoke"
    /\ Cardinality({n \in 1 .. Len(s) : s[n] = "invoke"}) <= 3

\* C15: the steps of a request run in the order authentication, admission,
\* routing, provider invocation (one to three times), cost, request log,
\* metrics, each at most once; a request rejected at a step runs no later
\* step: an unauthenticated one leaves every bucket as it was, a throttled
\* one invokes no provider and writes no row; a successful one computes the
\* cost once and writes at most one cost row.
C15_StepsInOrder ==
    [][\A r \in Reqs :
          LET q == req'[r]
          IN  /\ StepsInOrder(q.steps)
              /\ (req[r].pc = "idle" /\ q.status = 401) =>
                     /\ q.steps = <<"auth">>
                     /\ buckets' = buckets
              /\ q.status = 429 =>
                     /\ q.steps = <<"auth", "admit">>
                     /\ q.invoked = <<>>
                     /\ q.cost_rows = <<>>
                     /\ q.log_rows = <<>>
              /\ q.status = 200 =>
                     /\ Cardinality({n \in 1 .. Len(q.steps) :
                                        q.steps[n] = "cost"}) = 1
                     /\ Len(q.cost_rows) = IF q.faults.cost THEN 1 ELSE 0
                     /\ Len(q.invoked) \in 1 .. 3]_vars

\* C15 witness: a request served by its second provider went through every
\* step, the invocation twice.
C15_Witness ==
    /\ req[1].status = 200
    /\ req[1].steps = <<"auth", "admit", "route", "invoke", "invoke", "cost",
                        "log", "metrics">>
    /\ Len(req[1].cost_rows) = 1

\* C16: when the write of the Cost Record raises after a provider succeeded
\* (and no later step raises), the request returns 200 with that provider's
\* completion and cost_usd of the body is 0.0.
C16_CostFailureReportsZero ==
    \A r \in Reqs :
        LET q == req[r]
        IN  (q.pc = "done" /\ q.provider_used # "none" /\ ~q.faults.cost
                 /\ q.faults.metrics) =>
                /\ q.status = 200
                /\ q.body.cost_usd = 0
                /\ q.cost_rows = <<>>
                /\ q.body.provider = q.response.provider
                /\ q.body.id = q.response.request_id
                /\ q.body.model = q.response.model
                /\ q.body.prompt_tokens = q.response.tokens_in
                /\ q.body.completion_tokens = q.response.tokens_out

\* C16 witness: gpt-4 served 1000 + 500 tokens through openai (0.06 USD), the
\* cost write raised, the request log was written, and the client has its 200.
C16_Witness ==
    /\ req[1].pc = "done"
    /\ req[1].status = 200
    /\ ~req[1].faults.cost
    /\ req[1].faults.log
    /\ req[1].body.provider = "openai"
    /\ req[1].body.model = "gpt-4"
    /\ req[1].body.total_tokens = 1500
    /\ req[1].body.cost_usd = 0
    /\ Len(req[1].log_rows) = 1

\* C17: when a metric update of step 9 (request counter, cost counter,
\* latency histogram, fallback counter) raises after a provider succeeded,
\* the request still succeeds: the client gets the 200 response it would
\* have got had the update worked.
C17_MetricsFailureStill200 ==
    \A r \in Reqs :
        LET q == req[r]
        IN  (q.pc = "done" /\ q.provider_used # "none" /\ ~q.faults.metrics)
                =>
                /\ q.status = 200
                /\ q.body.provider = q.provider_used
                /\ q.body.model = q.response.model
                /\ q.body.cost_usd = q.cost_usd

\* C18: the Cost Record is committed before, and apart from, the Request
\* Log: when the write of the Request Log raises (and no other step does),
\* the request still returns 200, the Cost Record stays committed, and
\* cost_usd of the body is the cost of that record.
C18_LogFailureLeavesCost ==
    \A r \in Reqs :
        LET q == req[r]
        IN  (q.pc = "done" /\ q.provider_used # "none" /\ q.faults.cost
                 /\ ~q.faults.log /\ q.faults.metrics) =>
                /\ q.status = 200
                /\ q.log_rows = <<>>
                /\ Len(q.cost_rows) = 1
                /\ q.cost_rows[1].request_id = q.request_id
                /\ q.cost_rows[1].model = q.response.model
                /\ q.body.cost_usd = q.cost_rows[1].cost_usd
                /\ \E a, b \in 1 .. Len(q.steps) :
                       a < b /\ q.steps[a] = "cost" /\ q.steps[b] = "log"

\* C18 witness: gpt-4 served 1000 + 500 tokens through openai; the Cost
\* Record of 0.06 USD is committed, the write of the Request Log raised, and
\* the client got 200 with cost_usd = 0.06.
C18_Witness ==
    /\ req[1].pc = "done"
    /\ req[1].status = 200
    /\ ~req[1].faults.log
    /\ req[1].log_rows = <<>>
    /\ Len(req[1].cost_rows) = 1
    /\ req[1].cost_rows[1].cost_usd = 60000
    /\ req[1].body.cost_usd = 60000

\* C19: a successful request whose writes the store accepts has written one
\* cost_records row and one request_logs row, both under the gateway's
\* request id; the cost row holds the response's model and token counts and
\* the cost returned as cost_usd; the request_logs row has status "success"
\* and, as provider_used, the provider that served the request.
C19_OneCostRowOneLogRow ==
    \A r \in Reqs :
        LET q == req[r]
        IN  (q.pc = "done" /\ q.status = 200 /\ q.faults.cost /\ q.faults.log)
                =>
                /\ Len(q.cost_rows) = 1
                /\ Len(q.log_rows) = 1
                /\ q.cost_rows[1].request_id = q.request_id
                /\ q.log_rows[1].request_id = q.request_id
                /\ q.request_id # "none"
                /\ q.cost_rows[1].api_key_id = q.key
                /\ q.cost_rows[1].model = q.body.model
                /\ q.cost_rows[1].tokens_in = q.body.prompt_tokens
                /\ q.cost_rows[1].tokens_out = q.body.completion_tokens
                /\ q.cost_rows[1].cost_usd = q.body.cost_usd
                /\ q.log_rows[1].status = "success"
                /\ q.log_rows[1].provider_used = q.response.provider
                /\ q.log_rows[1].provider_used = q.invoked[Len(q.invoked)]

\* C19 witness: openai failed, deepseek served 1000 + 500 tokens of
\* deepseek-chat: one cost row of 0.00028 USD, one request_logs row with
\* provider_used deepseek.
C19_Witness ==
    /\ req[1].pc = "done"
    /\ req[1].status = 200
    /\ req[1].primary = "openai"
    /\ Len(req[1].cost_rows) = 1
    /\ Len(req[1].log_rows) = 1
    /\ req[1].cost_rows[1].model = "deepseek-chat"
    /\ req[1].cost_rows[1].cost_usd = 280
    /\ req[1].log_rows[1].provider_used = "deepseek"

\* How many of the metric updates s are the update u.
Updates(s, u) == Cardinality({n \in 1 .. Len(s) : s[n] = u})

\* C20: a successful request updates the request counter (tenant,
\* provider_used, success), the cost counter (tenant, provider_used, model)
\* and the latency histogram (tenant, provider_used) once each, and the
\* fallback counter (tenant, primary, provider_used) once if fallback_used,
\* that is if the serving provider is not the primary, and not at all
\* otherwise.
C20_MetricsOncePerSuccess ==
    \A r \in Reqs :
        LET q == req[r]
            served == q.response.provider
            fallback == IF served # q.primary THEN 1 ELSE 0
        IN  (q.pc = "done" /\ q.status = 200) =>
                /\ Updates(q.emitted,
                           Sample("llm_gateway_requests_total", q.key, served,
                                  "success", 1)) = 1
                /\ Updates(q.emitted,
                           Sample("llm_gateway_cost_total", q.key, served,
                                  q.body.model, q.body.cost_usd)) = 1
                /\ Updates(q.emitted,
                           Sample("llm_gateway_latency_seconds", q.key,
                                  served, "", 1)) = 1
                /\ Updates(q.emitted,
                           Sample("llm_gateway_fallbacks_total", q.key,
                                  q.primary, served, 1)) = fallback
                /\ Len(q.emitted) = 3 + fallback
                /\ q.fallback_flag <=> served # q.primary

\* C20 witness: openai answered 429, deepseek served the request: the
\* fallback counter (primary openai, to deepseek) went up by one.
C20_Witness ==
    /\ req[1].pc = "done"
    /\ req[1].status = 200
    /\ req[1].invoked = <<"openai", "deepseek">>
    /\ req[1].last_exception.class = "ProviderRateLimitError"
    /\ Updates(req[1].emitted,
               Sample("llm_gateway_fallbacks_total", req[1].key, "openai",
                      "deepseek", 1)) = 1

\* The updates of the error counter among the metric updates s that carry
\* the provider label p.
ErrorsOf(s, p) ==
    Cardinality({n \in 1 .. Len(s) :
                    s[n].metric = "llm_gateway_errors_total" /\ s[n].l2 = p})

\* C21: when all providers of a request fail, the error counter is
\* incremented once per provider that failed, each increment under that
\* provider's label.
C21_ErrorPerFailedProvider ==
    \A r \in Reqs :
        LET q == req[r]
        IN  (q.pc = "done" /\ q.status = 503) =>
                \A n \in 1 .. Len(q.invoked) :
                    ErrorsOf(q.emitted, q.invoked[n]) = 1

\* ------------------------------------------------------- claims on the cost

\* The prices per 1K tokens of the entries of the pricing table that the
\* cost runs use, in units of 10^-5 USD: 0.03 / 0.06, 0.0015 / 0.002,
\* 0.00014 / 0.00028, 0 / 0.
ListedPrice(provider, model) ==
    CASE provider = "openai" /\ model = "gpt-4" -> <<3000, 6000>>
      [] provider = "openai" /\ model = "gpt-3.5-turbo" -> <<150, 200>>
      [] provider = "deepseek" /\ model = "deepseek-chat" -> <<14, 28>>
      [] provider = "huggingface" /\ model = "llama-3" -> <<0, 0>>
      [] OTHER -> <<>>

\* The token counts of the n-th call of the cost run.
CostTokens(n) ==
    IF n = 1 THEN <<costing.tokens_in, costing.tokens_out>>
    ELSE <<costing.tokens_in + costing.more_in,
           costing.tokens_out + costing.more_out>>

\* C22: for token counts >= 0 and every (provider, model) of the pricing
\* table calculate_cost returns exactly n_i * p_i / 1000 + n_o * p_o / 1000
\* (in units of 10^-8 USD: n_i * p_i + n_o * p_o with prices in 10^-5 USD),
\* nothing floored or rounded; (1000, 500) costs 0.0025 for gpt-3.5-turbo,
\* 0.06 for gpt-4, 0.00028 for deepseek-chat and 0 for llama-3.
C22_ExactDecimalCost ==
    \A n \in 1 .. Len(costing.costs) :
        LET price == ListedPrice(costing.provider, costing.model)
            tokens == CostTokens(n)
        IN  price # <<>> =>
                /\ costing.costs[n]
                     = tokens[1] * price[1] + tokens[2] * price[2]
                /\ tokens = <<1000, 500>> =>
                       /\ costing.model = "gpt-3.5-turbo"
                              => costing.costs[n] = 250000
                       /\ costing.model = "gpt-4"
                              => costing.costs[n] = 6000000
                       /\ costing.model = "deepseek-chat"
                              => costing.costs[n] = 28000
                       /\ costing.model = "llama-3" => costing.costs[n] = 0

\* C22 witness: one input token of deepseek-chat costs 0.00000014 USD, below
\* the sixth fractional digit.
C22_Witness ==
    /\ costing.provider = "deepseek"
    /\ costing.model = "deepseek-chat"
    /\ costing.tokens_in = 1
    /\ costing.tokens_out = 0
    /\ Len(costing.costs) >= 1
    /\ costing.costs[1] = 14

C24_MonotoneNonNegative ==
    /\ \A n \in 1 .. Len(costing.costs) : costing.costs[n] >= 0
    /\ Len(costing.costs) = 2 => costing.costs[2] >= costing.costs[1]

\* C24 witness: a model openai does not list, 1000 input tokens, then 1001:
\* the second cost is the larger one.
C24_Witness ==
    /\ costing.provider = "openai"
    /\ costing.model = "gpt-4o"
    /\ costing.tokens_in = 1000
    /\ costing.more_in = 1
    /\ costing.more_out = 0
    /\ Len(costing.costs) = 2
    /\ costing.costs[2] > costing.costs[1]

\* C25: the price is that of the exact (provider, model) entry when there is
\* one; for a model missing under a known provider it is that of the
\* provider's first entry (openai: gpt-4, deepseek: deepseek-chat,
\* huggingface: llama-3); for an unknown provider the cost is zero.
C25_LookupPolicy ==
    \A n \in 1 .. Len(costing.costs) :
        LET exact == ListedPrice(costing.provider, costing.model)
            first == CASE costing.provider = "openai" -> <<3000, 6000>>
                       [] costing.provider = "deepseek" -> <<14, 28>>
                       [] costing.provider = "huggingface" -> <<0, 0>>
                       [] OTHER -> <<0, 0>>
            price == IF exact # <<>> THEN exact ELSE first
            tokens == CostTokens(n)
        IN  /\ costing.costs[n] = tokens[1] * price[1] + tokens[2] * price[2]
            /\ costing.provider = "unknown" => costing.costs[n] = 0

\* C25 witness: llama-3, which deepseek does not list, is priced under
\* deepseek at the prices of deepseek-chat: 0.00028 USD for 1000 + 500.
C25_Witness ==
    /\ costing.provider = "deepseek"
    /\ costing.model = "llama-3"
    /\ costing.tokens_in = 1000
    /\ costing.tokens_out = 500
    /\ Len(costing.costs) >= 1
    /\ costing.costs[1] = 28000

\* ------------------------------------------------ claims on authentication

\* C26: authentication returns a tenant only if that tenant is active and
\* its stored hash verifies the presented bearer token; when no active
\* tenant's hash verifies the token the request is rejected with 401; so a
\* request that presents the token of a deactivated tenant is rejected.
C26_OnlyActiveVerifiedTenants ==
    [][\A r \in Reqs :
          (req[r].pc = "idle" /\ req'[r].pc # "idle") =>
              LET q == req'[r]
              IN  /\ q.key # "none" =>
                         q.key \in active /\ verify_api_key(q.bearer, q.key)
                  /\ (~ \E k \in active : verify_api_key(q.bearer, k)) =>
                         q.status = 401 /\ q.key = "none"
                  /\ q.bearer \notin active => q.status = 401]_vars

\* C26 witness: tenant A was admitted once (its bucket exists), was then
\* deactivated, and its next request got 401.
C26_Witness ==
    /\ buckets["A"] # NoBucket
    /\ "A" \notin active
    /\ req[1].pc = "done"
    /\ req[1].bearer = "A"
    /\ req[1].status = 401

\* ---------------------------------------------- claims on the routing preview

\* C27: for every (task, budget, latency_sensitive) the selected provider of
\* GET /v1/routing/preview is the primary that POST /v1/chat/completions
\* tries first for a request with the same hints.
C27_PreviewIsChatPrimary ==
    (preview # NoPreview /\ req[1].invoked # <<>>) =>
        /\ preview.selected_provider = req[1].primary
        /\ preview.selected_provider = req[1].invoked[1]

\* C27 witness: reasoning previewed as huggingface, and the chat request
\* with the same hints has called huggingface first and gone on to openai.
C27_Witness ==
    /\ route.task = "reasoning"
    /\ route.latency_sensitive
    /\ preview.selected_provider = "huggingface"
    /\ req[1].invoked = <<"huggingface", "openai">>

\* C28: the fallback chain of GET /v1/routing/preview is the fallback chain
\* of the previewed request: the providers that would be attempted after
\* the selected primary, in canonical order, the primary removed.
C28_PreviewChainIsChatChain ==
    (preview # NoPreview /\ req[1].providers # <<>>) =>
        /\ preview.fallback_chain = Tail(req[1].providers)
        /\ \A n \in 1 .. Len(preview.fallback_chain) :
               preview.fallback_chain[n] # preview.selected_provider

\* ---------------------------------------------------- claims on the cool-down

\* C29: between two consecutive provider invocations of a request the
\* executor waits the 500 ms cool-down once, and the next invocation starts
\* after it; it waits neither before the first invocation, nor after a
\* success, nor after the failure of the last provider: at most two
\* cool-downs per request.
C29_OneCoolDownBetweenInvocations ==
    \A r \in Reqs :
        LET q == req[r]
            n == Len(q.invoked)
        IN  /\ n = 0 => q.cooled_ms = 0
            /\ n >= 1 => q.cooled_ms = 500 * (n - 1)
            /\ q.cooled_ms <= 2 * 500
            /\ q.pc = "sleeping" =>
                   /\ q.failed = n
                   /\ q.lastCause # "http200"
                   /\ n < Len(q.providers)

\* C29 witness: three providers failed one after the other: two cool-downs,
\* one second in all, none after the third failure.
C29_Witness ==
    /\ req[1].pc = "done"
    /\ req[1].status = 503
    /\ Len(req[1].invoked) = 3
    /\ req[1].cooled_ms = 1000

\* --------------------------------------------------- claims on the response

\* C30: in the body of every 200 response usage.total_tokens is
\* usage.prompt_tokens + usage.completion_tokens, and these are the token
\* counts of the response of the provider that served the request.
C30_TotalIsSumOfUsage ==
    \A r \in Reqs :
        LET q == req[r]
        IN  (q.pc = "done" /\ q.status = 200) =>
                /\ q.body.total_tokens
                     = q.body.prompt_tokens + q.body.completion_tokens
                /\ q.body.prompt_tokens = q.response.tokens_in
                /\ q.body.completion_tokens = q.response.tokens_out
                /\ q.response.provider = q.invoked[Len(q.invoked)]
                /\ q.body.provider = q.response.provider

\* C30 witness: huggingface served 1000 + 500 tokens after two providers
\* failed; the body reports 1000, 500 and 1500.
C30_Witness ==
    /\ req[1].pc = "done"
    /\ req[1].status = 200
    /\ Len(req[1].invoked) = 3
    /\ req[1].body.provider = "huggingface"
    /\ req[1].body.prompt_tokens = 1000
    /\ req[1].body.completion_tokens = 500
    /\ req[1].body.total_tokens = 1500

\* ------------------------------------------------- claims on the executor

\* C31: when the invocation of a provider raises an error that is not a
\* provider error, the executor invokes no further provider: it wraps the
\* error in a ProviderError naming that provider and raises it at once, so
\* the request ends in 503 with the providers after it untried.
C31_UnexpectedErrorStopsWalk ==
    \A r \in Reqs :
        LET q == req[r]
            n == Len(q.invoked)
        IN  q.lastCause = "unexpected" =>
                /\ q.pc = "done"
                /\ q.status = 503
                /\ n = q.i
                /\ q.failed = n
                /\ q.detail = [class |-> "ProviderError",
                               provider |-> q.invoked[n],
                               cause |-> "unexpected"]
                /\ q.cooled_ms = CoolDownMs * (n - 1)

\* C31 witness: the first of three providers raised an unexpected error and
\* the request ended in 503 with two providers untried.
C31_Witness ==
    /\ req[1].lastCause = "unexpected"
    /\ req[1].status = 503
    /\ Len(req[1].providers) = 3
    /\ Len(req[1].invoked) = 1

\* -------------------------------------------- claims on the bucket lifetime

\* C32: the bucket of a tenant is made by the first rate-limit check of the
\* tenant, full (capacity R, the tenant's limit at that moment) with rate
\* R/60, and that check takes its token from it; from then on the same
\* bucket stays in the map: no step removes it, changes its capacity or its
\* rate, or sets its level by anything but the consume of a later check,
\* whatever happens to the tenant's limit and however many of the tenant's
\* requests are in flight.
C32_OneBucketForLife ==
    [][\A k \in Tenants :
         /\ (buckets[k] = NoBucket /\ buckets'[k] # NoBucket) =>
                /\ buckets'[k].capacity = limits[k]
                /\ buckets'[k].refill_rate * 60 = limits[k] * Scale
                /\ buckets'[k].last_refill = clock
                /\ buckets'[k].tokens
                     = IF limits[k] >= 1 THEN (limits[k] - 1) * Scale ELSE 0
         /\ buckets[k] # NoBucket =>
                /\ buckets'[k] # NoBucket
                /\ buckets'[k].capacity = buckets[k].capacity
                /\ buckets'[k].refill_rate = buckets[k].refill_rate
                /\ buckets'[k] \in {buckets[k], consume(buckets[k], clock).bucket}
      ]_vars

\* C32 witness: two requests of tenant "A" are in flight, its bucket still
\* has the capacity 2 it was made with and is empty, and the tenant's limit
\* is 1 by now.
C32_Witness ==
    /\ req[1].pc = "calling"
    /\ req[2].pc = "calling"
    /\ buckets["A"] # NoBucket
    /\ buckets["A"].capacity = 2
    /\ buckets["A"].tokens = 0
    /\ limits["A"] = 1

\* ------------------------------------------------- claims on the adapters

\* C33: an adapter call ends in a response exactly when the upstream
\* answered 2xx and in one error otherwise, and the error kinds are kept
\* distinct: two calls whose causes fall under different kinds of the
\* taxonomy (missing key, timeout, 429, 5xx, other 4xx) end in errors that
\* differ in kind.
C33_ErrorKindsKeptDistinct ==
    \A a, b \in 1 .. Len(adapter) :
        /\ adapter[a].res.ok <=> adapter[a].cause = "http200"
        /\ ~adapter[a].res.ok =>
               adapter[a].res.exc.class \in ProviderErrors
        /\ (/\ ~adapter[a].res.ok
            /\ ~adapter[b].res.ok
            /\ Taxonomy(adapter[a].cause) # Taxonomy(adapter[b].cause)) =>
               adapter[a].res.exc.class # adapter[b].res.exc.class

\* ------------------------------------------ claims on the cost attribution

\* The words among "gpt", "deepseek", "llama", "mixtral", "qwen" that the
\* model name holds once it is put in lower case.
Keywords(model) ==
    CASE model \in {"gpt-4", "gpt-4-turbo-preview", "gpt-3.5-turbo",
                    "gpt-3.5-turbo-16k", "GPT-4", "gpt2"} -> {"gpt"}
      [] model = "gpt-llama" -> {"gpt", "llama"}
      [] model \in {"deepseek-chat", "deepseek-coder"} -> {"deepseek"}
      [] model = "deepseek-ai/DeepSeek-R1-Distill-Llama-8B" ->
             {"deepseek", "llama"}
      [] model \in {"llama-3", "meta-llama/Meta-Llama-3-8B-Instruct"} ->
             {"llama"}
      [] model \in {"mixtral", "mistralai/Mixtral-8x7B-Instruct-v0.1"} ->
             {"mixtral"}
      [] model \in {"qwen", "Qwen/Qwen2-7B-Instruct"} -> {"qwen"}
      [] OTHER -> {}

\* C34: the provider of a cost record comes from the model of the response
\* alone: openai when the name holds "gpt"; otherwise deepseek when it holds
\* "deepseek"; otherwise huggingface when it holds "llama", "mixtral" or
\* "qwen"; otherwise unknown, which costs nothing.  Every model gets
\* exactly one of the four.
C34_ProviderFromModelName ==
    \A r \in Reqs :
        \A j \in 1 .. Len(req[r].cost_rows) :
            LET row == req[r].cost_rows[j]
                K == Keywords(row.model)
            IN  /\ row.model = req[r].response.model
                /\ row.provider \in Providers \cup {"unknown"}
                /\ row.provider = "openai" <=> "gpt" \in K
                /\ row.provider = "deepseek" <=>
                       ("gpt" \notin K /\ "deepseek" \in K)
                /\ row.provider = "huggingface" <=>
                       /\ "gpt" \notin K
                       /\ "deepseek" \notin K
                       /\ K \cap {"llama", "mixtral", "qwen"} # {}
                /\ row.provider = "unknown" <=> K = {}
                /\ row.provider = "unknown" => row.cost_usd = 0

\* C34 witness: the cost record of a response whose model holds "deepseek"
\* and "llama" is attributed to deepseek.
C34_Witness ==
    /\ req[1].pc = "done"
    /\ Len(req[1].cost_rows) = 1
    /\ req[1].cost_rows[1].model = "deepseek-ai/DeepSeek-R1-Distill-Llama-8B"
    /\ req[1].cost_rows[1].provider = "deepseek"

\* C35: for every successful request the provider of its cost record is the
\* provider that served it (the provider of the response body and
\* provider_used of the request log), and cost_usd is computed from that
\* provider's prices, whatever model the client named and whether or not a
\* fallback occurred.
C35_CostAttributedToServingProvider ==
    \A r \in Reqs :
        LET q == req[r]
        IN  (q.pc = "done" /\ q.status = 200) =>
                /\ Len(q.cost_rows) = 1
                /\ Len(q.log_rows) = 1
                /\ q.body.provider = q.invoked[Len(q.invoked)]
                /\ q.log_rows[1].provider_used = q.body.provider
                /\ q.cost_rows[1].provider = q.body.provider
                /\ q.cost_rows[1].cost_usd =
                       Numeric6(calculate_cost(q.body.provider,
                                               q.response.model,
                                               q.response.tokens_in,
                                               q.response.tokens_out))

\* ------------------------------------------- claims on the failed requests

C37_TokenNeverGivenBack ==
    [][\A k \in Tenants :
         buckets'[k] # buckets[k] =>
             \E r \in Reqs :
                 /\ req[r].pc = "idle"
                 /\ req'[r].key = k
                 /\ req'[r].admit \in {"ok", "throttled", "error"}
      ]_vars

\* C37 witness: a request of tenant "A", whose bucket holds one token at
\* most, was admitted and ended in 503; the bucket is still empty.
C37_Witness ==
    /\ req[1].pc = "done"
    /\ req[1].status = 503
    /\ req[1].key = "A"
    /\ req[1].admit = "ok"
    /\ buckets["A"].capacity = 1
    /\ buckets["A"].tokens = 0

\* C38: whatever capacity a tenant is configured with, 0 included, its
\* rate-limit check either admits the request or throttles it with 429 and
\* an integer Retry-After of at least 1; it never raises anything else, so
\* no request ends in 500 because of it.
C38_AdmitIsOkOrThrottled ==
    \A r \in Reqs :
        LET q == req[r]
        IN  q.admit # "none" =>
                /\ q.admit \in {"ok", "throttled"}
                /\ q.admit = "throttled" =>
                       /\ q.pc = "done"
                       /\ q.status = 429
                       /\ q.retry_after >= 1
                /\ (q.pc = "done" /\ q.status = 500) => q.admit = "ok"

\* ------------------------------------------------- claims on termination

\* C39: every request that has entered the fallback walk gets its response,
\* 200, 503 or 500 (a throttled one has its 429 as soon as it is checked);
\* the response, once there, is not changed; a walk invokes no provider
\* twice and has made at most three invocations and two cool-downs.
C39_EveryRequestTerminates ==
    /\ (req[1].pc \in {"calling", "sleeping"})
           ~> (req[1].pc = "done" /\ req[1].status \in {200, 503, 500})
    /\ [](/\ req[1].pc \in {"idle", "calling", "sleeping", "done"}
          /\ req[1].pc = "done" => req[1].status \in {200, 429, 503, 500}
          /\ Len(req[1].invoked) <= 3
          /\ req[1].cooled_ms <= 2 * CoolDownMs
          /\ \A a, b \in 1 .. Len(req[1].invoked) :
                 a # b => req[1].invoked[a] # req[1].invoked[b])
    /\ [][req[1].pc = "done" => req'[1] = IdleReq]_vars

\* C39 witness: a request got 200 from its third provider after two
\* cool-downs.
C39_Witness ==
    /\ req[1].pc = "done"
    /\ req[1].status = 200
    /\ Len(req[1].invoked) = 3
    /\ req[1].failed = 2
    /\ req[1].cooled_ms = 2 * CoolDownMs

====
